---- MODULE Spec2Model ----
(***************************************************************************)
(* Reliz release pipeline: run() of src/src/cli.js and the modules it      *)
(* drives (config, version, hooks, plugins, git, gitFlow, linearRelease,   *)
(* npm, github, gitlab).  One behaviour is one invocation of the command.  *)
(* What the run reads from outside (flags, environment, config file,       *)
(* prompt answers, the result of every subprocess and HTTP call) is drawn  *)
(* nondeterministically at the step of the code that reads it.             *)
(***************************************************************************)
EXTENDS Integers, Sequences, FiniteSets, TLC

\* ------------------------------------------------------------------ bounds
MaxHooks == 2      \* longest hook command list of a phase
MaxPlugins == 2    \* longest config.plugins list
MaxFlags == 1      \* most command-line flags given together
MaxEnvVars == 1    \* most environment variables set together
MaxFileKeys == 1   \* most of the keys dryRun, ci, gitFlow set in the config file
MaxComponent == 2  \* largest number in a version given to increaseVersion
MaxCounter == 1    \* largest pre-release counter of such a version
MaxApplications == 2  \* times increaseVersion is applied in a row
MaxCommits == 3    \* longest list of commit subjects
MaxReleases == 2   \* releases made one after the other on the same changelog
MaxElement == 2    \* largest element of an array in a configuration tree

NoVal == "null"    \* JavaScript null / undefined

\* ----------------------------------------------------------------- version
\* A version string "1.2.3" or "1.2.4-beta.0" is the record of its dotted
\* numbers and its pre-release segment (preId = "" when there is none).
NaN == -1

Ver(nums, preId, preNum) == [nums |-> nums, preId |-> preId, preNum |-> preNum]

\* currentVersion.split('.').map(Number): the last number of the base and
\* "-<id>" fall into one piece, which Number() turns into NaN.
SplitParts(v) ==
    IF v.preId = "" THEN v.nums
    ELSE SubSeq(v.nums, 1, Len(v.nums) - 1) \o <<NaN>> \o <<v.preNum>>

PartAt(parts, i) == IF i <= Len(parts) THEN parts[i] ELSE 0

Inc(x) == IF x = NaN THEN NaN ELSE x + 1

\* an id used as it was typed
NormPreIdAsTyped(id) == id

\* preId.trim().toLowerCase() on the ids the model draws
NormPreId(id) ==
    CASE id = "Beta " -> "beta"
      [] id = " " -> ""
      [] OTHER -> id

\* a minor bump that leaves the patch number in place
BaseOfKeepsPatch(parts, type) ==
    LET major == PartAt(parts, 1)
        minor == PartAt(parts, 2)
        patch == PartAt(parts, 3)
        build == PartAt(parts, 4)
    IN CASE type = "major" -> <<Inc(major), 0, 0>>
         [] type = "minor" -> <<major, Inc(minor), patch>>
         [] type \in {"hotfix", "build"} ->
                IF Len(parts) = 3 THEN <<major, minor, patch, 1>>
                ELSE <<major, minor, patch, Inc(build)>>
         [] OTHER -> <<major, minor, Inc(patch)>>

BaseOf(parts, type) ==
    LET major == PartAt(parts, 1)
        minor == PartAt(parts, 2)
        patch == PartAt(parts, 3)
        build == PartAt(parts, 4)
    IN CASE type = "major" -> <<Inc(major), 0, 0>>
         [] type = "minor" -> <<major, Inc(minor), 0>>
         [] type = "patch" -> <<major, minor, Inc(patch)>>
         [] type \in {"hotfix", "build"} ->
                IF Len(parts) = 3 THEN <<major, minor, patch, 1>>
                ELSE <<major, minor, patch, Inc(build)>>
         [] OTHER -> <<major, minor, Inc(patch)>>

increaseVersion(currentVersion, type, preId) ==
    LET base == BaseOf(SplitParts(currentVersion), type)
    IN IF preId = NoVal \/ NormPreId(preId) = ""
       THEN Ver(base, "", 0)
       ELSE LET preIdNorm == NormPreId(preId)
            IN IF currentVersion.preId # "" /\ NormPreId(currentVersion.preId) = preIdNorm
               THEN Ver(currentVersion.nums, preIdNorm, currentVersion.preNum + 1)
               ELSE Ver(base, preIdNorm, 0)

\* ---------------------------------------------------------------- tag names
Tag(prefix, version) == [prefix |-> prefix, ver |-> version]

\* cli.js: tagConfig.prefix ?? 'v' keeps an empty prefix
cliTagName(prefix, version) == Tag(IF prefix = NoVal THEN "v" ELSE prefix, version)

\* git.js: tagConfig.prefix || 'v' turns an empty prefix into 'v'
gitTagName(prefix, version) ==
    Tag(IF prefix = NoVal \/ prefix = "" THEN "v" ELSE prefix, version)

\* ------------------------------------------------------------ configuration
Flags == {"--ci", "--dry-run", "--no-git-flow", "--yes", "--no-increment",
          "--release-version", "--only-version", "--changelog", "--config"}

\* config.js isCiEnv: the variables of CI vendors
VendorVars == {"CI", "GITHUB_ACTIONS", "GITLAB_CI", "CIRCLECI", "TRAVIS", "JENKINS_URL"}

EnvVars == {"RELIZ_CI", "RELIZ_DRY_RUN", "RELIZ_NO_GIT_FLOW", "RELIZ_YES"} \cup VendorVars

\* a boolean key of the config file: absent, true or false
Tri == {"unset", "true", "false"}

\* what the run is started with: flags, environment, whether findConfigFile
\* finds a file (the one --config names, or a conventional one) and the
\* dryRun / ci / gitFlow keys of the file it found
FileKeysSet(raw) ==
    {k \in {"fileDryRun", "fileCi", "fileGitFlow"} : raw[k] # "unset"}

RawInputs ==
    {raw \in [argv : {S \in SUBSET Flags : Cardinality(S) <= MaxFlags},
              env : {S \in SUBSET EnvVars : Cardinality(S) <= MaxEnvVars},
              fileExists : BOOLEAN,
              fileDryRun : Tri, fileCi : Tri, fileGitFlow : {"unset", "false"}] :
        /\ Cardinality(FileKeysSet(raw)) <= MaxFileKeys
        /\ ~raw.fileExists => FileKeysSet(raw) = {}}

\* config.js findConfigFile / loadFromFile: with no file found, whether
\* --config named one or not, the file's part of the configuration is {}
loadFromFile(raw) ==
    IF raw.fileExists
    THEN [dryRun |-> raw.fileDryRun, ci |-> raw.fileCi, gitFlow |-> raw.fileGitFlow]
    ELSE [dryRun |-> "unset", ci |-> "unset", gitFlow |-> "unset"]

\* a run started with no flag, no variable and no config file: getDefaults
NoRawInput ==
    [argv |-> {}, env |-> {}, fileExists |-> FALSE, fileDryRun |-> "unset",
     fileCi |-> "unset", fileGitFlow |-> "unset"]

\* loadConfig: config.dryRun after the file merge and the env override
configDryRun(raw) == IF "RELIZ_DRY_RUN" \in raw.env THEN "true" ELSE loadFromFile(raw).dryRun

\* loadConfig: config.ci after the env override, before CI detection
configCiBase(raw) == IF "RELIZ_CI" \in raw.env THEN "true" ELSE loadFromFile(raw).ci

isCiEnv(raw) == raw.env \cap VendorVars # {}

loadConfigIsCi(raw) ==
    \/ "--ci" \in raw.argv
    \/ configCiBase(raw) = "true"
    \/ (configCiBase(raw) # "false" /\ isCiEnv(raw))

\* run(): const dryRun = config.dryRun ?? argv.dryRun
runDryRun(raw) ==
    IF configDryRun(raw) # "unset" THEN configDryRun(raw) = "true"
    ELSE ("--dry-run" \in raw.argv \/ configDryRun(raw) = "true")

\* run(): const isCi = config.ci ?? argv.ci
runIsCi(raw) ==
    LET ci == loadConfigIsCi(raw)
        configCi == IF ci THEN "true" ELSE configCiBase(raw)
    IN IF configCi # "unset" THEN configCi = "true" ELSE ci

\* run(): const useGitFlow = (config.gitFlow !== false) && !argv.noGitFlow
runUseGitFlow(raw) == loadFromFile(raw).gitFlow # "false" /\ "--no-git-flow" \notin raw.argv

\* run(): const effectiveYes = yes || onlyVersion, yes being argv.yes
runEffectiveYes(raw) == "--yes" \in raw.argv \/ "--only-version" \in raw.argv

\* the options run() works with; dryRunRequested records that the user asked
\* for a dry run by flag or environment
loadConfig(raw) ==
    [dryRun |-> runDryRun(raw),
     dryRunRequested |-> ("--dry-run" \in raw.argv \/ "RELIZ_DRY_RUN" \in raw.env),
     isCi |-> runIsCi(raw),
     useGitFlow |-> runUseGitFlow(raw),
     effectiveYes |-> runEffectiveYes(raw),
     noIncrement |-> "--no-increment" \in raw.argv,
     releaseVersion |-> "--release-version" \in raw.argv,
     changelog |-> "--changelog" \in raw.argv]


\* ------------------------------------------------------------------- state
VARIABLES
    raw,       \* command line, environment and config file, while they are read
    pc,        \* the statement of run() that executes next
    phase,     \* lifecycle phase whose hooks or plugins run next
    ran,       \* what the hook or plugin phase of the latest step executed
    phases,    \* the hook and plugin phases run so far, in order
    opts,      \* dryRun, isCi, useGitFlow, ... as run() computes them
    plugins,   \* number of plugins loadPlugins returned
    ctx,       \* the release context run() builds up
    repo,      \* manifest, changelog file, tags, commits, pushed refs
    repo0,     \* the repository as it was when the run started
    steps,     \* kinds of mutating or external steps executed so far
    asked,     \* interactive prompts issued by the latest step
    err,       \* the error that was thrown, NoErr while there is none
    exitCode,  \* process exit status, -1 while the process runs
    report,    \* the final line the process printed
    warn       \* warning printed by the latest step

vars == <<raw, pc, phase, ran, phases, opts, plugins, ctx, repo, repo0,
          steps, asked, err, exitCode, report, warn>>

NoVer == Ver(<<>>, "", 0)
NoTag == Tag(NoVal, NoVer)
NoErr == [kind |-> "none"]
NoReport == [kind |-> "none"]
NoRan == [kind |-> "none"]

\* package.json version at start, and the heading already in CHANGELOG.md
CurrentVersions == {Ver(<<1, 2, 3>>, "", 0)}
PriorEntry == Ver(<<1, 2, 2>>, "", 0)

\* tags that may exist before the run: the one a patch release would create
ExistingTags == {Tag("v", Ver(<<1, 2, 4>>, "", 0))}

Init ==
    /\ raw \in RawInputs
    /\ pc = "loadConfig"
    /\ phase = NoVal
    /\ ran = NoRan
    /\ phases = <<>>
    /\ opts = loadConfig(NoRawInput)
    /\ plugins = 0
    /\ ctx = [currentVersion |-> NoVer, currentBranch |-> NoVal, bump |-> NoVal,
              preId |-> NoVal, newVersion |-> NoVer, tagPrefix |-> NoVal,
              tagName |-> NoTag,
              releaseUrl |-> NoVal]
    /\ \E v \in CurrentVersions, lt \in SUBSET ExistingTags, rt \in SUBSET ExistingTags :
          /\ rt \subseteq lt
          /\ repo = [manifest |-> v, changelog |-> <<PriorEntry>>, localTags |-> lt,
                  remoteTags |-> rt, commits |-> 0, pushed |-> {}]
    /\ repo0 = repo
    /\ steps = {}
    /\ asked = {}
    /\ err = NoErr
    /\ exitCode = -1
    /\ report = NoReport
    /\ warn = NoVal

\* ------------------------------------------------------------ control flow
Ctl(l, p) == pc' = l /\ phase' = p

Go(l) == Ctl(l, NoVal)

GoHooks(p) == Ctl("runHooks", p)

GoPlugins(p) == Ctl("runPlugins", p)

Static == UNCHANGED <<raw, repo0, plugins, phases>>
NoOutput == UNCHANGED <<exitCode, report>>
Silent == warn' = NoVal /\ asked' = {} /\ ran' = NoRan

\* the step ends normally and run() goes on at statement l
Ok(l) == Go(l) /\ UNCHANGED err /\ NoOutput

OkHooks(p) == GoHooks(p) /\ UNCHANGED err /\ NoOutput

OkPlugins(p) == GoPlugins(p) /\ UNCHANGED err /\ NoOutput

\* process.exit(code) after printing line
Exit(code, line) == Go("exited") /\ exitCode' = code /\ report' = line

\* a throw in the synchronous part of run(), before the promise chain
\* exists: it leaves run(), which cli.js 209-211 calls bare, so Node prints
\* the uncaught exception with its stack trace and ends with status 1
ThrowSync(e) == err' = e /\ Exit(1, [kind |-> "uncaught", error |-> e])

\* a chain whose callback catches the error and carries on with publication
RejectCaught(e) == err' = e /\ Go("npmPublish") /\ NoOutput

\* a throw inside a .then callback of run(): the chain is rejected and its
\* final .catch runs: console.error('Error:', err.message); process.exit(1)
Reject(e) == err' = e /\ Exit(1, [kind |-> "errorLine", error |-> e])

\* the options a later statement of run() still reads
Forget(o, fields) == [f \in (DOMAIN o) \ fields |-> o[f]]

\* cli.js 19-25: loadConfig(cwd, process.argv.slice(2)) and the options
\* run() derives from what it returns
runLoadConfig ==
    /\ pc = "loadConfig"
    /\ opts' = loadConfig(raw)
    /\ Ok("loadPlugins")
    /\ Silent /\ Static
    /\ UNCHANGED <<ctx, repo, steps>>

\* ----------------------------------------------------------------- plugins
\* the paths of config.plugins whose require() succeeded, in list order
LoadedPlugins(loads) == SelectSeq([i \in 1..Len(loads) |-> i], LAMBDA i : loads[i])

\* loadPlugins: a path that fails to load is warned about and left out
loadPlugins ==
    /\ pc = "loadPlugins"
    /\ \E n \in 0..MaxPlugins : \E loads \in [1..n -> BOOLEAN] :
          /\ plugins' = Len(LoadedPlugins(loads))
          /\ warn' = IF plugins' < n THEN "Plugin failed to load" ELSE NoVal
    /\ GoPlugins("init")
    /\ raw' = NoRawInput
    /\ asked' = {}
    /\ ran' = NoRan
    /\ NoOutput
    /\ UNCHANGED <<opts, repo0, phases, ctx, repo, steps, err>>

\* what plugin[method] can be and do: not implemented, returns (or resolves),
\* throws (or, in the release phase, returns a promise that rejects)
PluginResults == {"absent", "returns", "throws"}

\* the for loop of runPluginLifecycle / runPluginLifecycleAsync from plugin i
\* on: the plugins whose callback was invoked and those warned about
RECURSIVE runPluginLifecycle(_, _, _, _)
runPluginLifecycle(results, i, invoked, warned) ==
    IF i > Len(results) THEN [invoked |-> invoked, warned |-> warned]
    ELSE IF results[i] = "absent"
         THEN runPluginLifecycle(results, i + 1, invoked, warned)
    ELSE IF results[i] = "returns"
         THEN runPluginLifecycle(results, i + 1, Append(invoked, i), warned)
    ELSE runPluginLifecycle(results, i + 1, Append(invoked, i), Append(warned, i))

\* cli.js: what follows each plugin phase
AfterPlugins(p) ==
    CASE p = "init" -> GoHooks("beforeInit")
      [] p = "beforeRelease" -> GoHooks("beforeRelease")
      [] p = "release" -> GoHooks("afterRelease")
      [] OTHER -> Go("completed")

\* a plugin phase without the try/catch around the callback
PluginPhaseThrows(p, out) ==
    IF out.warned = <<>> THEN AfterPlugins(p) /\ UNCHANGED err /\ NoOutput
    ELSE IF p = "init" THEN ThrowSync([kind |-> "PluginFailed", plugin |-> out.warned[1]])
    ELSE Reject([kind |-> "PluginFailed", plugin |-> out.warned[1]])

\* plugins.js 58-60, 79-81: a failing callback leaves a warning and nothing
\* else, so the phase always returns normally to run()
PluginPhaseReturns(p, out) == AfterPlugins(p) /\ UNCHANGED err /\ NoOutput

\* one call of runPluginLifecycle(plugins, phase, context)
runPlugins ==
    /\ pc = "runPlugins"
    /\ \E results \in [1..plugins -> PluginResults] :
          LET out == runPluginLifecycle(results, 1, <<>>, <<>>)
          IN /\ ran' = [kind |-> "plugins", phase |-> phase, results |-> results,
                        invoked |-> out.invoked, warned |-> out.warned,
                        releaseUrl |-> ctx.releaseUrl]
             /\ warn' = IF out.warned # <<>> THEN "Plugin failed" ELSE NoVal
             /\ PluginPhaseReturns(phase, out)
    /\ phases' = Append(phases, [kind |-> "plugins", phase |-> phase])
    /\ asked' = {}
    /\ UNCHANGED <<raw, opts, repo0, plugins, ctx, repo, steps>>

\* ------------------------------------------------------------------- hooks
\* a run() without the afterBump hooks
AfterHooksSkipsAfterBump(p) ==
    CASE p = "beforeInit" -> Go("getCurrentVersion")
      [] p = "beforeRelease" -> Go("ensureTagNotExists")
      [] p = "afterGitRelease" -> Go("npmPublish")
      [] OTHER -> GoPlugins("afterRelease")

\* cli.js: what follows each hook phase
AfterHooks(p) ==
    CASE p = "beforeInit" -> Go("getCurrentVersion")
      [] p = "beforeRelease" -> Go("ensureTagNotExists")
      [] p = "afterGitRelease" -> GoHooks("afterBump")
      [] p = "afterBump" -> Go("npmPublish")
      [] OTHER -> GoPlugins("afterRelease")

\* the dryRun argument run() passes to runHooks: dryRun for beforeInit,
\* the literal false for every later phase
hookDryRun(p) == IF p = "beforeInit" THEN opts.dryRun ELSE FALSE

\* the for loop of runHooks from command i on; results[i] tells whether
\* command i exits with status 0.  executed: the commands handed to
\* execSync, in order; failed: the command whose failure was thrown, 0 if none
RECURSIVE runHooks(_, _, _, _)
runHooks(results, dryRun, i, executed) ==
    IF i > Len(results) THEN [executed |-> executed, failed |-> 0]
    ELSE IF dryRun THEN runHooks(results, dryRun, i + 1, executed)
    ELSE IF results[i] THEN runHooks(results, dryRun, i + 1, Append(executed, i))
    ELSE [executed |-> Append(executed, i), failed |-> i]

\* hooks.js 11-19: ${key} is replaced by context[key] unless that is null
\* (or an object), in which case the text stays as it was written
interpolate(cmd, context) ==
    IF cmd = "${releaseUrl}" /\ context.releaseUrl # NoVal THEN context.releaseUrl
    ELSE cmd

\* hooks.js 38: throw new Error(`Hook failed: ${line}. ${e.message}`)
HookError(p, cmd) == [kind |-> "HookFailed", phase |-> p, cmd |-> cmd]

\* a run() that catches the hook's error and carries on
HookFailureIgnored(p, cmd) ==
    err' = HookError(p, cmd) /\ AfterHooks(p) /\ NoOutput

\* nothing in run() catches the error: beforeInit runs in the synchronous
\* part of run(), the later phases inside the promise chain
HookFailure(p, cmd) ==
    IF p = "beforeInit" THEN ThrowSync(HookError(p, cmd)) ELSE Reject(HookError(p, cmd))

\* one call of runHooks(config.hooks[phase], context, dryRun) on a list of
\* n commands of which at most one, failing, would exit with an error
hooks ==
    /\ pc = "runHooks"
    /\ \E n \in 0..MaxHooks : \E failing \in 0..n :
          LET results == [i \in 1..n |-> i # failing]
              out == runHooks(results, hookDryRun(phase), 1, <<>>)
          IN /\ ran' = [kind |-> "hooks", phase |-> phase, results |-> results,
                        executed |-> out.executed, failed |-> out.failed,
                        line |-> interpolate("${releaseUrl}", ctx)]
             /\ IF out.failed = 0
                THEN AfterHooks(phase) /\ UNCHANGED err /\ NoOutput
                ELSE HookFailure(phase, out.failed)
    /\ phases' = Append(phases, [kind |-> "hooks", phase |-> phase])
    /\ warn' = NoVal
    /\ asked' = {}
    /\ UNCHANGED <<raw, opts, repo0, plugins, ctx, repo, steps>>

\* ------------------------------------------------------------- termination
\* run(): console.log('Release completed successfully.'), then the event
\* loop drains and the process ends with status 0
Completed ==
    /\ pc = "completed"
    /\ Exit(0, [kind |-> "completed"])
    /\ Silent /\ Static
    /\ UNCHANGED <<opts, ctx, repo, steps, err>>

\* --------------------------------------------------- run(): up to the chain
\* a run() that does not look at the info-only flags
getCurrentVersionIgnoresFlags ==
    /\ pc = "getCurrentVersion"
    /\ ctx' = [ctx EXCEPT !.currentVersion = repo.manifest]
    /\ Ok("ensureOriginRemote")
    /\ opts' = Forget(opts, {"releaseVersion", "changelog"})
    /\ Silent /\ Static
    /\ UNCHANGED <<repo, steps>>

\* cli.js 34-59: read package.json, then look at the info-only flags
getCurrentVersion ==
    /\ pc = "getCurrentVersion"
    /\ ctx' = [ctx EXCEPT !.currentVersion = repo.manifest]
    /\ Ok(IF opts.releaseVersion THEN "printNextVersion"
          ELSE IF opts.changelog THEN "printChangelog"
          ELSE "ensureOriginRemote")
    /\ opts' = Forget(opts, {"releaseVersion", "changelog"})
    /\ Silent /\ Static
    /\ UNCHANGED <<repo, steps>>

\* cli.js 36-42: --release-version prints the next version and exits
printNextVersion ==
    /\ pc = "printNextVersion"
    /\ \E bump \in {"patch", "minor"}, preId \in {NoVal, "beta"} :
          Exit(0, [kind |-> "info",
                   version |-> increaseVersion(ctx.currentVersion, bump, preId)])
    /\ Silent /\ Static
    /\ UNCHANGED <<opts, ctx, repo, steps, err>>

PreconditionKinds == {"NoOrigin", "DirtyTree", "NoGitFlow", "NoUpstream",
                      "BranchNotAllowed"}

\* cli.js 44-59: --changelog prints the changelog text and exits
printChangelog ==
    /\ pc = "printChangelog"
    /\ \/ /\ Exit(0, [kind |-> "info", version |-> ctx.currentVersion])
          /\ UNCHANGED err
       \/ ThrowSync([kind |-> "NoOrigin"])
    /\ Silent /\ Static
    /\ UNCHANGED <<opts, ctx, repo, steps>>

\* a check whose failure is noticed and the run goes on all the same
PreconditionSkipped(failed, kind, next) ==
    /\ err' = IF failed THEN [kind |-> kind] ELSE err
    /\ Go(next)
    /\ NoOutput

\* cli.js 61-67: a check of git.js throws when it fails, and run() has no
\* try/catch around it
Precondition(failed, kind, next) ==
    IF failed THEN ThrowSync([kind |-> kind]) ELSE Ok(next)

\* cli.js 61 with git.js ensureOriginRemote
ensureOriginRemote ==
    /\ pc = "ensureOriginRemote"
    /\ \E missing \in BOOLEAN :
          Precondition(missing, "NoOrigin", "ensureCleanWorkingTree")
    /\ Silent /\ Static
    /\ UNCHANGED <<opts, ctx, repo, steps>>

\* cli.js 62: if (config.requireCleanWorkingDir) ensureCleanWorkingTree()
ensureCleanWorkingTree ==
    /\ pc = "ensureCleanWorkingTree"
    /\ \E requireClean \in BOOLEAN, dirty \in BOOLEAN :
          Precondition(requireClean /\ dirty, "DirtyTree", "ensureGitFlowInstalled")
    /\ Silent /\ Static
    /\ UNCHANGED <<opts, ctx, repo, steps>>

\* cli.js 63: if (useGitFlow) ensureGitFlowInstalled()
ensureGitFlowInstalled ==
    /\ pc = "ensureGitFlowInstalled"
    /\ \E installed \in BOOLEAN :
          Precondition(opts.useGitFlow /\ ~installed, "NoGitFlow", "ensureUpstream")
    /\ Silent /\ Static
    /\ UNCHANGED <<opts, ctx, repo, steps>>

Branches == {"develop", "main"}

\* cli.js 65-67: getCurrentBranch, then ensureUpstream when required
ensureUpstream ==
    /\ pc = "ensureUpstream"
    /\ \E branch \in Branches, requireUpstream \in BOOLEAN, tracked \in BOOLEAN :
          /\ ctx' = [ctx EXCEPT !.currentBranch = branch]
          /\ Precondition(requireUpstream /\ ~tracked, "NoUpstream", "allowReleaseFrom")
    /\ Silent /\ Static
    /\ UNCHANGED <<opts, repo, steps>>

\* config.allowReleaseFrom: an empty list, and the default
AllowLists == {{}, {"develop"}}

\* cli.js 68-72: prints its own line with console.error and exits with 1
allowReleaseFrom ==
    /\ pc = "allowReleaseFrom"
    /\ \E allow \in AllowLists :
          IF allow # {} /\ ctx.currentBranch \notin allow
          THEN /\ err' = [kind |-> "BranchNotAllowed"]
               /\ Exit(1, [kind |-> "cannotRelease", branch |-> ctx.currentBranch])
          ELSE Ok("resolveBump")
    /\ Silent /\ Static
    /\ UNCHANGED <<opts, ctx, repo, steps>>

\* ------------------------------------------------------------ commit subjects
\* A commit subject "<type><sep><text>": "feat: x", "Fix!: x", "chore x", ...
Subject(type, sep, text) == [type |-> type, sep |-> sep, text |-> text]

\* the lists getNewCommits can return, up to MaxCommits subjects
CommitLists ==
    LET Subjects ==
            {Subject(type, sep, "x") :
                type \in {"feat", "Fix", "chore"}, sep \in {": ", "!: ", " "}}
            \cup {Subject("chore", ": ", "BREAKING CHANGE: x")}
    IN UNION {[1..n -> Subjects] : n \in 0..MaxCommits}

\* String.prototype.toLowerCase, and the i flag of the regular expressions
LowerCase(word) == IF word = "Fix" THEN "fix" ELSE word

\* /^(\w+)(\([^)]*\))?!:?\s|BREAKING CHANGE:/i
reBreaking(line) == line.sep \in {"!: ", "! "} \/ line.text = "BREAKING CHANGE: x"

\* /^feat(\([^)]*\))?!?:\s/i
reFeat(line) == LowerCase(line.type) = "feat" /\ line.sep \in {": ", "!: "}

\* /^fix(\([^)]*\))?!?:\s/i
reFix(line) == LowerCase(line.type) = "fix" /\ line.sep \in {": ", "!: "}

\* the suggestion taken from the first commit alone
suggestFromFirstCommit(commitMessages) ==
    IF commitMessages = <<>> THEN NoVal
    ELSE IF reBreaking(commitMessages[1]) THEN "major"
    ELSE IF reFeat(commitMessages[1]) THEN "minor"
    ELSE IF reFix(commitMessages[1]) THEN "patch"
    ELSE NoVal

\* version.js suggestBumpFromCommits: the flags the loop sets, then the
\* returns in the order major, minor, patch, null
suggestBumpFromCommits(commitMessages) ==
    LET Msgs == {commitMessages[i] : i \in 1..Len(commitMessages)}
        hasBreaking == \E m \in Msgs : reBreaking(m)
        hasFeat == \E m \in Msgs : ~reBreaking(m) /\ reFeat(m)
        hasFix == \E m \in Msgs : ~reBreaking(m) /\ ~reFeat(m) /\ reFix(m)
    IN IF hasBreaking THEN "major"
       ELSE IF hasFeat THEN "minor"
       ELSE IF hasFix THEN "patch"
       ELSE NoVal

\* ---------------------------------------------------------- bump resolution
ArgvBumps == {NoVal, "minor"}        \* argv.bump
ConfigBumps == {NoVal, "major"}      \* config.bump
\* what getNewCommits returns: one chore, or a fix followed by a feature
CommitSamples ==
    {<<Subject("chore", ": ", "x")>>,
     <<Subject("fix", ": ", "a bug"), Subject("feat", ": ", "new thing")>>}
BumpAnswers == {"default", "prerelease"}   \* answer to the bump prompt
PreIds == {NoVal, "beta"}            \* --preid=
ConfigPreIds == {NoVal, "rc"}        \* preRelease.id of the config file
PreIdAnswers == {NoVal, "rc"}        \* answer to the pre-release id prompt

\* cli.js 74-78
initialBump(argvBump, configBump, isCi) ==
    IF argvBump # NoVal THEN argvBump
    ELSE IF isCi \/ configBump # NoVal
         THEN (IF configBump # NoVal THEN configBump ELSE "patch")
         ELSE NoVal

\* config.js 193-194 and cli.js 86: parsed.preid || envOverrides.preid ||
\* config.preRelease.id, null when none is given
effectivePreId(argvPreid, envPreid, filePreid) ==
    IF argvPreid # NoVal THEN argvPreid
    ELSE IF envPreid # NoVal THEN envPreid
    ELSE filePreid

\* prompts.js selectBumpType
selectBumpType(suggested, defaultBump, isCi, answer) ==
    IF isCi THEN defaultBump
    ELSE IF answer = "default"
         THEN (IF suggested # NoVal THEN suggested ELSE "patch")
         ELSE answer

\* cli.js 74-105: the bump kind and the pre-release id, prompting for each
\* only when it is not given
resolveBump ==
    /\ pc = "resolveBump"
    /\ \E argvBump \in ArgvBumps, configBump \in ConfigBumps, commits \in CommitSamples,
          conventionalCommits \in BOOLEAN,
          answer \in BumpAnswers, argvPreid \in PreIds, filePreid \in ConfigPreIds,
          idAnswer \in PreIdAnswers :
          LET bump0 == initialBump(argvBump, configBump, opts.isCi)
              suggested == IF conventionalCommits THEN suggestBumpFromCommits(commits)
                           ELSE NoVal
              preId0 == effectivePreId(argvPreid, NoVal, filePreid)
              askBump == ~opts.noIncrement /\ bump0 = NoVal /\ ~opts.isCi
              bump1 == IF bump0 # NoVal THEN bump0
                       ELSE selectBumpType(suggested, "patch", opts.isCi, answer)
              askId == ~opts.noIncrement /\ bump1 = "prerelease"
                          /\ preId0 = NoVal /\ ~opts.isCi
              bump2 == IF opts.noIncrement THEN bump0
                       ELSE IF bump1 = "prerelease" THEN "patch" ELSE bump1
              preId1 == IF askId THEN idAnswer ELSE preId0
          IN /\ ctx' = [ctx EXCEPT !.bump = bump2, !.preId = preId1]
             /\ asked' = (IF askBump THEN {"bump"} ELSE {})
                            \cup (IF askId THEN {"preid"} ELSE {})
             /\ ran' = [kind |-> "bump", argvBump |-> argvBump,
                        configBump |-> configBump, suggested |-> suggested,
                        commits |-> commits, conventionalCommits |-> conventionalCommits,
                        answer |-> IF askBump THEN answer ELSE NoVal,
                        argvPreid |-> argvPreid, filePreid |-> filePreid]
    /\ Ok("computeVersion")
    /\ warn' = NoVal
    /\ Static
    /\ UNCHANGED <<opts, repo, steps>>

\* cli.js 112: [dry-run] Would release ${newVersion} (bump: ...) from ${currentBranch}.
dryRunLine(c, noIncrement) ==
    [kind |-> "dryRun", version |-> c.newVersion,
     bump |-> IF noIncrement THEN "none" ELSE c.bump, branch |-> c.currentBranch]

\* cli.js 106-114: the new version, and the exit of a dry run; preId is a
\* local of run() that no statement after cli.js 107 reads
computeVersion ==
    /\ pc = "computeVersion"
    /\ LET newVersion ==
              IF opts.noIncrement THEN ctx.currentVersion
              ELSE increaseVersion(ctx.currentVersion,
                                   IF ctx.bump = NoVal THEN "patch" ELSE ctx.bump,
                                   ctx.preId)
           c == [ctx EXCEPT !.newVersion = newVersion, !.preId = NoVal]
       IN /\ ctx' = c
          /\ IF opts.dryRun
             THEN Exit(0, dryRunLine(c, opts.noIncrement)) /\ UNCHANGED err
             ELSE Ok("confirm")
    /\ opts' = Forget(opts, {"noIncrement"})
    /\ Silent /\ Static
    /\ UNCHANGED <<repo, steps>>

\* 'Release cancelled.' is printed and the process.exit(0) is missing
DeclinedGoesOn ==
    /\ Go("buildContext")
    /\ report' = [kind |-> "cancelled"]
    /\ UNCHANGED <<err, exitCode>>

\* cli.js 121-124: console.log('Release cancelled.'); process.exit(0)
Declined == Exit(0, [kind |-> "cancelled"]) /\ UNCHANGED err

\* a confirmation that is asked for whatever the mode
confirmAlwaysAsks ==
    /\ pc = "confirm"
    /\ asked' = {"confirm"}
    /\ \E confirmed \in BOOLEAN :
          IF confirmed THEN Ok("buildContext") ELSE Declined
    /\ opts' = Forget(opts, {"isCi", "effectiveYes"})
    /\ warn' = NoVal
    /\ ran' = NoRan
    /\ Static
    /\ UNCHANGED <<ctx, repo, steps>>

\* cli.js 116-127 with prompts.js confirmRelease
confirm ==
    /\ pc = "confirm"
    /\ IF opts.isCi \/ opts.effectiveYes
       THEN Ok("buildContext") /\ asked' = {}
       ELSE /\ asked' = {"confirm"}
            /\ \E confirmed \in BOOLEAN :
                  IF confirmed THEN Ok("buildContext") ELSE Declined
    /\ opts' = Forget(opts, {"isCi", "effectiveYes"})
    /\ warn' = NoVal
    /\ ran' = NoRan
    /\ Static
    /\ UNCHANGED <<ctx, repo, steps>>

Prefixes == {"v", ""}

\* cli.js 129-158: the context of the release, then the beforeRelease plugins
buildContext ==
    /\ pc = "buildContext"
    /\ \E prefix \in Prefixes :
          ctx' = [ctx EXCEPT !.tagPrefix = prefix,
                             !.tagName = cliTagName(prefix, ctx.newVersion),
                             !.releaseUrl = NoVal]
    /\ OkPlugins("beforeRelease")
    /\ Silent /\ Static
    /\ UNCHANGED <<opts, repo, steps>>

\* cli.js 161-170 with git.js ensureTagNotExists: every failure inside is
\* swallowed, so a tag may be deleted locally and left on the remote
ensureTagNotExists ==
    /\ pc = "ensureTagNotExists"
    /\ \E deleteIfExists \in BOOLEAN, localOk \in BOOLEAN, remoteOk \in BOOLEAN :
          LET tagName == gitTagName(ctx.tagPrefix, ctx.newVersion)
              delLocal == deleteIfExists /\ localOk /\ tagName \in repo.localTags
              delRemote == deleteIfExists /\ localOk /\ remoteOk
                              /\ tagName \in repo.remoteTags
          IN /\ repo' = [repo EXCEPT
                            !.localTags = IF delLocal THEN @ \ {tagName} ELSE @,
                            !.remoteTags = IF delRemote THEN @ \ {tagName} ELSE @]
             /\ steps' = steps \cup (IF delLocal \/ delRemote THEN {"deleteTag"} ELSE {})
             /\ ran' = [kind |-> "ensureTagNotExists", deleteIfExists |-> deleteIfExists,
                        failed |-> deleteIfExists /\ ~(localOk /\ remoteOk)]
    /\ Ok(IF opts.useGitFlow THEN "syncBranches" ELSE "linearUpdateFiles")
    /\ warn' = NoVal /\ asked' = {}
    /\ Static
    /\ UNCHANGED <<opts, ctx>>

\* a failing execSync: Error('Command failed: <cmd>')
GitError(cmd) == [kind |-> "CommandFailed", cmd |-> cmd]

\* an entry written behind what the file holds
appendAfterContent(content, entry) == content \o <<entry>>

\* changelog.js appendChangelogEntry: fs.writeFileSync(path, entry + content),
\* content being '' when the file does not exist
appendChangelogEntry(content, entry) == <<entry>> \o content

\* gitFlow.js updateFiles / linearRelease.js 25-26: setPackageVersion, then
\* appendChangelogEntry puts the new entry in front of the file
updateFiles(r, version) ==
    [r EXCEPT !.manifest = version, !.changelog = appendChangelogEntry(@, version)]

\* ------------------------------------------------------ branching workflow
\* cli.js 166 with gitFlow.js syncBranches
\* git refuses `git branch --force` on the branch that is checked out
syncBranches ==
    /\ pc = "syncBranches"
    /\ \E sync \in BOOLEAN, ok \in BOOLEAN :
          LET forced == IF ~sync \/ ~ok THEN {}
                        ELSE IF ctx.currentBranch = "main" THEN {"main"}
                        ELSE IF ctx.currentBranch = "develop" THEN {"main"}
                        ELSE {"main", "develop"}
          IN /\ ran' = [kind |-> "syncBranches", forced |-> forced]
             /\ IF ~sync THEN Ok("flowEnsureBranch")
                ELSE IF ~ok THEN Reject(GitError("fetch"))
                ELSE IF ctx.currentBranch = "main"
                     THEN Reject(GitError("branch --force main"))
                ELSE Ok("flowEnsureBranch")
    /\ warn' = NoVal /\ asked' = {}
    /\ Static
    /\ UNCHANGED <<opts, ctx, repo, steps>>

\* gitFlow.js 48-49: releaseBranch = `${prefix}${newVersion}`
releaseBranchName(version) == [prefix |-> "release/", version |-> version]

\* the local branches `git branch` may list besides develop and main: the
\* release branch itself and the branch of a release candidate of the same
\* version, "release/1.2.4-rc.0" for "release/1.2.4"
LocalBranches(version) ==
    {releaseBranchName(version), releaseBranchName(Ver(version.nums, "rc", 0))}

\* the text of branch name b contains the text of branch name a
nameIncludes(b, a) ==
    \/ b = a
    \/ /\ b.prefix = a.prefix
       /\ b.version.nums = a.version.nums
       /\ a.version.preId = ""
       /\ b.version.preId # ""

\* gitFlow.js 56-57: branches.includes(releaseBranch) on the output of
\* `git branch`, a test for a substring of the whole listing
branchesIncludes(listed, releaseBranch) ==
    \E b \in listed : nameIncludes(b, releaseBranch)

\* gitFlow.js 54-66: start the release branch, or check it out if the
\* listing holds its name; checking out a branch that is not there fails
flowEnsureBranch ==
    /\ pc = "flowEnsureBranch"
    /\ \E listed \in SUBSET LocalBranches(ctx.newVersion), ok \in BOOLEAN :
          LET releaseBranch == releaseBranchName(ctx.newVersion)
              releaseBranchExists == branchesIncludes(listed, releaseBranch)
              command == IF releaseBranchExists THEN "checkout" ELSE "flow release start"
              done == ok /\ (releaseBranchExists <=> releaseBranch \in listed)
          IN /\ ran' = [kind |-> "ensureBranch", listed |-> listed,
                        releaseBranch |-> releaseBranch, command |-> command]
             /\ IF done THEN Ok("flowUpdateFiles") ELSE Reject(GitError(command))
    /\ steps' = steps \cup {"branch"}
    /\ warn' = NoVal
    /\ asked' = {}
    /\ Static
    /\ UNCHANGED <<opts, ctx, repo>>

\* gitFlow.js 69
flowUpdateFiles ==
    /\ pc = "flowUpdateFiles"
    /\ repo' = updateFiles(repo, ctx.newVersion)
    /\ steps' = steps \cup {"files"}
    /\ Ok("flowCommit")
    /\ Silent /\ Static
    /\ UNCHANGED <<opts, ctx>>

\* gitFlow.js 70-73
flowCommit ==
    /\ pc = "flowCommit"
    /\ steps' = steps \cup {"commit"}
    /\ \/ /\ repo' = [repo EXCEPT !.commits = @ + 1]
          /\ Ok("flowPush")
       \/ /\ Reject(GitError("commit"))
          /\ UNCHANGED repo
    /\ Silent /\ Static
    /\ UNCHANGED <<opts, ctx>>

\* config.git.pushArgs: the default, and a list whose text holds the words
\* the retry test looks for
PushArgLists == {<<"--follow-tags">>, <<"--push-option=non-fast-forward">>}

\* gitFlow.js 80: the push runs with { stdio: 'inherit' }
PushStdio == "inherit"

\* the message of the Error execSync throws: the command line, and the
\* child's stderr only when stderr was piped to the parent
execSyncMessage(cmd, args, stdio, stderr) ==
    [cmd |-> cmd, args |-> args, stderr |-> IF stdio = "pipe" THEN stderr ELSE NoVal]

\* gitFlow.js 82: pushErr.message.includes('non-fast-forward')
includesNonFastForward(m) ==
    \/ m.stderr = "non-fast-forward"
    \/ \E i \in 1..Len(m.args) : m.args[i] = "--push-option=non-fast-forward"

\* why the remote rejects a push
PushRejections == {"non-fast-forward", "other"}

\* gitFlow.js 89: else throw pushErr; rejection is what git wrote to the
\* terminal
PushError(why) == [kind |-> "CommandFailed", cmd |-> "push", rejection |-> why]

\* gitFlow.js 75-90: the first push of the release branch
flowPush ==
    /\ pc = "flowPush"
    /\ steps' = steps \cup {"push"}
    /\ \E pushArgs \in PushArgLists :
          \/ /\ repo' = [repo EXCEPT !.pushed = @ \cup {"release"}]
             /\ ran' = NoRan
             /\ Ok("flowFinish")
          \/ \E why \in PushRejections :
                LET m == execSyncMessage("git push origin HEAD", pushArgs, PushStdio, why)
                IN /\ UNCHANGED repo
                   /\ ran' = [kind |-> "pushFailed", rejection |-> why]
                   /\ IF includesNonFastForward(m)
                      THEN Ok("flowRebase")
                      ELSE Reject(PushError(why))
    /\ warn' = NoVal /\ asked' = {}
    /\ Static
    /\ UNCHANGED <<opts, ctx>>

PushAfterRebaseFailed == [kind |-> "PushAfterRebaseFailed"]

\* gitFlow.js 83-88: git pull --rebase, then the second push
flowRebase ==
    /\ pc = "flowRebase"
    /\ UNCHANGED steps
    /\ \/ /\ repo' = [repo EXCEPT !.pushed = @ \cup {"release"}]
          /\ Ok("flowFinish")
       \/ /\ Reject(PushAfterRebaseFailed)
          /\ UNCHANGED repo
    /\ Silent /\ Static
    /\ UNCHANGED <<opts, ctx>>

\* gitFlow.js 92-94: git flow release finish merges the release branch and
\* creates the tag under git-flow's own version tag prefix
flowFinish ==
    /\ pc = "flowFinish"
    /\ steps' = steps \cup {"finish"}
    /\ \/ \E flowPrefix \in Prefixes :
             /\ repo' = [repo EXCEPT
                            !.localTags = @ \cup {Tag(flowPrefix, ctx.newVersion)}]
             /\ Ok("flowPushBranches")
       \/ /\ Reject(GitError("flow release finish"))
          /\ UNCHANGED repo
    /\ Silent /\ Static
    /\ UNCHANGED <<opts, ctx>>

\* gitFlow.js 96-98: push develop, then main
flowPushBranches ==
    /\ pc = "flowPushBranches"
    /\ steps' = steps \cup {"pushBranches"}
    /\ \/ /\ repo' = [repo EXCEPT !.pushed = @ \cup {"develop", "main"}]
          /\ Ok("flowPushTag")
       \/ /\ repo' = [repo EXCEPT !.pushed = @ \cup {"develop"}]
          /\ Reject(GitError("push main"))
       \/ /\ Reject(GitError("push develop"))
          /\ UNCHANGED repo
    /\ Silent /\ Static
    /\ UNCHANGED <<opts, ctx>>

\* a tag push that does not look at the local tags first
flowPushTagAlways ==
    /\ pc = "flowPushTag"
    /\ steps' = steps \cup {"pushTag"}
    /\ LET tagName == cliTagName(ctx.tagPrefix, ctx.newVersion)
       IN IF tagName \in repo.localTags
          THEN /\ repo' = [repo EXCEPT !.remoteTags = @ \cup {tagName}]
               /\ OkHooks("afterGitRelease")
          ELSE /\ Reject(GitError("push tag"))
               /\ UNCHANGED repo
    /\ Silent /\ Static
    /\ UNCHANGED <<opts, ctx>>

\* gitFlow.js 100-107: the tag is pushed only if it exists locally
flowPushTag ==
    /\ pc = "flowPushTag"
    /\ LET tagName == cliTagName(ctx.tagPrefix, ctx.newVersion)
       IN IF tagName \in repo.localTags
          THEN /\ steps' = steps \cup {"pushTag"}
               /\ warn' = NoVal
               /\ \/ /\ repo' = [repo EXCEPT !.remoteTags = @ \cup {tagName}]
                     /\ OkHooks("afterGitRelease")
                  \/ /\ Reject(GitError("push tag"))
                     /\ UNCHANGED repo
          ELSE /\ OkHooks("afterGitRelease")
               /\ warn' = "Tag does not exist locally"
               /\ UNCHANGED <<repo, steps>>
    /\ asked' = {}
    /\ ran' = NoRan
    /\ Static
    /\ UNCHANGED <<opts, ctx>>

\* --------------------------------------------------------- linear workflow
\* linearRelease.js 24-26
linearUpdateFiles ==
    /\ pc = "linearUpdateFiles"
    /\ repo' = updateFiles(repo, ctx.newVersion)
    /\ steps' = steps \cup {"files"}
    /\ Ok("linearCommit")
    /\ Silent /\ Static
    /\ UNCHANGED <<opts, ctx>>

\* a commit whose failure is not noticed
linearCommitIgnored ==
    /\ pc = "linearCommit"
    /\ steps' = steps \cup {"commit"}
    /\ Ok("linearCreateTag")
    /\ Silent /\ Static
    /\ UNCHANGED <<opts, ctx, repo>>

\* linearRelease.js 28-30
linearCommit ==
    /\ pc = "linearCommit"
    /\ steps' = steps \cup {"commit"}
    /\ \/ /\ repo' = [repo EXCEPT !.commits = @ + 1]
          /\ Ok("linearCreateTag")
       \/ /\ Reject(GitError("commit"))
          /\ UNCHANGED repo
    /\ Silent /\ Static
    /\ UNCHANGED <<opts, ctx>>

\* linearRelease.js 35 with git.js createTag: git tag -a fails when the tag
\* is already there
linearCreateTag ==
    /\ pc = "linearCreateTag"
    /\ steps' = steps \cup {"tag"}
    /\ LET tagName == gitTagName(ctx.tagPrefix, ctx.newVersion)
       IN \/ /\ tagName \notin repo.localTags
             /\ repo' = [repo EXCEPT !.localTags = @ \cup {tagName}]
             /\ Ok("linearPush")
          \/ /\ Reject(GitError("tag"))
             /\ UNCHANGED repo
    /\ Silent /\ Static
    /\ UNCHANGED <<opts, ctx>>

\* linearRelease.js 36-40: pushBranch(getCurrentBranch()), then
\* pushTag(the name createTag returned)
linearPush ==
    /\ pc = "linearPush"
    /\ LET tagName == gitTagName(ctx.tagPrefix, ctx.newVersion)
       IN \/ /\ repo' = [repo EXCEPT !.pushed = @ \cup {ctx.currentBranch},
                                     !.remoteTags = @ \cup {tagName}]
             /\ steps' = steps \cup {"pushBranch", "pushTag"}
             /\ OkHooks("afterGitRelease")
          \/ /\ repo' = [repo EXCEPT !.pushed = @ \cup {ctx.currentBranch}]
             /\ steps' = steps \cup {"pushBranch", "pushTag"}
             /\ Reject(GitError("push tag"))
          \/ /\ Reject(GitError("push branch"))
             /\ steps' = steps \cup {"pushBranch"}
             /\ UNCHANGED repo
    /\ Silent /\ Static
    /\ UNCHANGED <<opts, ctx>>

\* -------------------------------------------------------------- publication
\* npm.js 27-34: neither execSync sits in a try/catch, in npmPublish or in
\* run(), so a failing npm install or npm publish rejects the chain
NpmFailure == Reject([kind |-> "NpmFailed"])

\* cli.js 178-180 with npm.js npmPublish
npmPublish ==
    /\ pc = "npmPublish"
    /\ \E publish \in BOOLEAN :
          IF ~publish THEN Ok("githubRelease") /\ UNCHANGED steps
          ELSE /\ steps' = steps \cup {"publication"}
               /\ \/ Ok("githubRelease")
                  \/ NpmFailure
    /\ Silent /\ Static
    /\ UNCHANGED <<opts, ctx, repo>>

GitHubUrl == "github-release-url"
GitLabUrl == "gitlab-release-url"

\* what the latest step got back from a provider's release creation
Provider(name, returned) == [kind |-> "provider", name |-> name, returned |-> returned]

\* the URL of the later provider replaces the one already held
lastUrlWins(current, url) == IF url # NoVal THEN url ELSE current

\* cli.js 191: if (url) context.releaseUrl = context.releaseUrl || url
keepFirstUrl(current, url) == IF url # NoVal /\ current = NoVal THEN url ELSE current

\* a GitHub release promise without its .catch
GitHubFailureRejects ==
    /\ Reject([kind |-> "GitHubFailed"])
    /\ warn' = "GitHub release failed"
    /\ ran' = Provider("github", NoVal)
    /\ UNCHANGED ctx

\* cli.js 185: .catch((err) => { console.warn('GitHub release failed:', ...); return null; })
GitHubFailure ==
    /\ Ok("gitlabRelease")
    /\ warn' = "GitHub release failed"
    /\ ran' = Provider("github", NoVal)
    /\ UNCHANGED ctx

\* cli.js 182-186 with github.js createGitHubRelease
githubRelease ==
    /\ pc = "githubRelease"
    /\ \E release \in BOOLEAN :
          IF ~release
          THEN /\ Ok("gitlabRelease")
               /\ warn' = NoVal
               /\ ran' = NoRan
               /\ UNCHANGED <<ctx, steps>>
          ELSE /\ steps' = steps \cup {"publication"}
               /\ \/ \E url \in {GitHubUrl, NoVal} :
                        /\ ctx' = [ctx EXCEPT !.releaseUrl = url]
                        /\ ran' = Provider("github", url)
                        /\ Ok("gitlabRelease")
                        /\ warn' = NoVal
                  \/ GitHubFailure
    /\ asked' = {}
    /\ Static
    /\ UNCHANGED <<opts, repo>>

\* cli.js 193: .catch((err) => { console.warn('GitLab release failed:', ...); return context.releaseUrl; })
GitLabFailure ==
    /\ OkPlugins("release")
    /\ warn' = "GitLab release failed"
    /\ ran' = Provider("gitlab", NoVal)
    /\ UNCHANGED ctx

\* cli.js 187-195 with gitlab.js createGitLabRelease
gitlabRelease ==
    /\ pc = "gitlabRelease"
    /\ \E release \in BOOLEAN :
          IF ~release
          THEN /\ OkPlugins("release")
               /\ warn' = NoVal
               /\ ran' = NoRan
               /\ UNCHANGED <<ctx, steps>>
          ELSE /\ steps' = steps \cup {"publication"}
               /\ \/ \E url \in {GitLabUrl, NoVal} :
                        /\ ctx' = [ctx EXCEPT !.releaseUrl = keepFirstUrl(@, url)]
                        /\ ran' = Provider("gitlab", url)
                        /\ OkPlugins("release")
                        /\ warn' = NoVal
                  \/ GitLabFailure
    /\ asked' = {}
    /\ Static
    /\ UNCHANGED <<opts, repo>>

\* ------------------------------------------------------------ specification
Next ==
    \/ runLoadConfig
    \/ loadPlugins
    \/ runPlugins
    \/ hooks
    \/ getCurrentVersion
    \/ printNextVersion
    \/ printChangelog
    \/ ensureOriginRemote
    \/ ensureCleanWorkingTree
    \/ ensureGitFlowInstalled
    \/ ensureUpstream
    \/ allowReleaseFrom
    \/ resolveBump
    \/ computeVersion
    \/ confirm
    \/ buildContext
    \/ ensureTagNotExists
    \/ syncBranches
    \/ flowEnsureBranch
    \/ flowUpdateFiles
    \/ flowCommit
    \/ flowPush
    \/ flowRebase
    \/ flowFinish
    \/ flowPushBranches
    \/ flowPushTag
    \/ linearUpdateFiles
    \/ linearCommit
    \/ linearCreateTag
    \/ linearPush
    \/ npmPublish
    \/ githubRelease
    \/ gitlabRelease
    \/ Completed

Spec == Init /\ [][Next]_vars

\* ------------------------------------------------------------------- claims
\* the run has ended
Exited == pc = "exited"

\* nothing of the repository has changed and no workflow step was attempted
Untouched == repo = repo0 /\ steps = {}

\* the plugins of a phase whose callback exists, in registration order
Implemented(results) ==
    SelectSeq([i \in 1..Len(results) |-> i], LAMBDA i : results[i] # "absent")

\* the plugins of a phase whose callback fails, in registration order
Failing(results) ==
    SelectSeq([i \in 1..Len(results) |-> i], LAMBDA i : results[i] = "throws")

\* C1: in the branching workflow a first push of the release branch that the
\* remote rejects as non-fast-forward never ends the run by itself (it is
\* retried once after a rebase), and when the retry fails with 'Push after
\* rebase failed.' none of finish, integration-branch push and tag push has
\* been executed.
C1_RetryOnNonFastForward ==
    /\ ~(/\ err.kind = "CommandFailed"
         /\ err.cmd = "push"
         /\ err.rejection = "non-fast-forward")
    /\ err = PushAfterRebaseFailed =>
          steps \cap {"finish", "pushBranches", "pushTag"} = {}

\* C2: in a run where dry-run is requested by flag or environment, whatever
\* the config file holds, the repository is never changed, no workflow or
\* publication step is attempted, no hook command is executed, and a run
\* that ends without an error ends with status 0.
C2_DryRunMutatesNothing ==
    opts.dryRunRequested =>
        /\ Untouched
        /\ ran.kind = "hooks" => ran.executed = <<>>
        /\ Exited /\ err = NoErr => exitCode = 0

\* C3: the line a dry run reports carries the next version, the branch and
\* the tag name that the real run uses.
C3_DryRunReportsDecisions ==
    report.kind = "dryRun" =>
        /\ report.version = ctx.newVersion
        /\ report.branch = ctx.currentBranch
        /\ "tagName" \in DOMAIN report
        /\ \E prefix \in Prefixes : report.tagName = cliTagName(prefix, ctx.newVersion)

\* C4: when a precondition fails (no origin remote, dirty working tree,
\* git-flow not installed, no upstream, branch not allowed) the run has ended
\* with a non-zero status and the repository is untouched: no tag deleted, no
\* file written, no commit or tag created, nothing pushed.
C4_PreconditionFailureBeforeMutation ==
    err.kind \in PreconditionKinds =>
        /\ Exited
        /\ exitCode # 0
        /\ Untouched

C4_Witness ==
    /\ Exited
    /\ err.kind = "NoUpstream"
    /\ exitCode = 1
    /\ ctx.currentBranch = "develop"

\* C5: every run that ends on an error has printed the single line
\* 'Error: <message>' from the top-level handler and exits with status 1; a
\* successful run and an info-only run exit with status 0.
C5_FatalErrorsReportedByHandler ==
    Exited =>
        /\ err # NoErr => report = [kind |-> "errorLine", error |-> err] /\ exitCode = 1
        /\ report.kind \in {"completed", "info"} => exitCode = 0

\* C6: once 'Release cancelled.' is printed the run has ended with status 0,
\* the repository is untouched, no workflow or publication step was
\* attempted, and the only hook and plugin phases that ran are init and
\* beforeInit.
C6_DeclineMutatesNothing ==
    report.kind = "cancelled" =>
        /\ Exited
        /\ exitCode = 0
        /\ Untouched
        /\ \A i \in 1..Len(phases) : phases[i].phase \in {"init", "beforeInit"}

C6_Witness ==
    /\ report.kind = "cancelled"
    /\ Exited
    /\ ctx.newVersion = Ver(<<1, 3, 0>>, "", 0)
    /\ Len(phases) = 2

\* C7: a hook phase executes the first commands of its list in list order,
\* all of them unless one fails; when one fails it is the last command
\* executed, the run ends there with status 1 on an error that names the
\* phase and the failing command, that hook phase is the last phase that
\* ran, and the steps that come after it in the pipeline were not executed.
C7_HooksInOrderFailureStops ==
    /\ ran.kind = "hooks" =>
          /\ ran.executed = [i \in 1..Len(ran.executed) |-> i]
          /\ Len(ran.executed) <= Len(ran.results)
          /\ ran.failed = 0 /\ ~(ran.phase = "beforeInit" /\ opts.dryRun) =>
                Len(ran.executed) = Len(ran.results)
          /\ ran.failed # 0 =>
                /\ ran.executed[Len(ran.executed)] = ran.failed
                /\ err = HookError(ran.phase, ran.failed)
    /\ err.kind = "HookFailed" =>
          /\ Exited
          /\ exitCode = 1
          /\ report.error = err
          /\ ran.kind = "hooks" /\ ran.failed = err.cmd
          /\ phases[Len(phases)] = [kind |-> "hooks", phase |-> err.phase]
          /\ err.phase \in {"beforeInit", "beforeRelease"} => Untouched
          /\ err.phase # "afterRelease" => "publication" \notin steps

C7_Witness ==
    /\ err = HookError("afterGitRelease", 1)
    /\ Len(ran.results) = 2
    /\ ran.executed = <<1>>
    /\ Exited
    /\ "commit" \in steps

\* C8: a plugin that fails to load, or whose callback fails, leaves a warning
\* and nothing else: every plugin of the phase that implements the callback
\* is invoked, in registration order, no error is raised, the process keeps
\* running, and run() goes on at the statement that follows the phase,
\* whatever the callbacks did.
C8_PluginFailuresOnlyWarn ==
    /\ ran.kind = "plugins" =>
          /\ ran.invoked = Implemented(ran.results)
          /\ ran.warned = Failing(ran.results)
          /\ Len(ran.results) = plugins
          /\ err = NoErr
          /\ exitCode = -1
          /\ ran.phase = "init" => pc = "runHooks" /\ phase = "beforeInit"
          /\ ran.phase = "beforeRelease" => pc = "runHooks" /\ phase = "beforeRelease"
          /\ ran.phase = "release" => pc = "runHooks" /\ phase = "afterRelease"
          /\ ran.phase = "afterRelease" => pc = "completed"
    /\ warn = "Plugin failed to load" =>
          /\ pc = "runPlugins" /\ phase = "init"
          /\ err = NoErr
          /\ exitCode = -1

C8_Witness ==
    /\ ran.kind = "plugins"
    /\ ran.phase = "release"
    /\ ran.results = <<"throws", "returns">>
    /\ ran.invoked = <<1, 2>>
    /\ warn = "Plugin failed"
    /\ pc = "runHooks"

\* C9: a failure of the npm publish step never makes the process exit with
\* status 1.
C9_NpmFailureNonFatal ==
    err.kind = "NpmFailed" => exitCode # 1

\* C10: after a failed GitHub release creation the run goes on with the
\* GitLab release and the release URL is null; after a failed GitLab release
\* creation the run goes on with the release plugins and the release URL is
\* what GitHub returned, if anything; neither failure raises an error or
\* ends the process, and the release URL is only ever null or a URL a
\* provider returned.
C10_ProviderFailuresDoNotAbort ==
    /\ warn = "GitHub release failed" =>
          /\ pc = "gitlabRelease"
          /\ ctx.releaseUrl = NoVal
          /\ err = NoErr
          /\ exitCode = -1
    /\ warn = "GitLab release failed" =>
          /\ pc = "runPlugins" /\ phase = "release"
          /\ ctx.releaseUrl \in {NoVal, GitHubUrl}
          /\ err = NoErr
          /\ exitCode = -1
    /\ ctx.releaseUrl \in {NoVal, GitHubUrl, GitLabUrl}
    /\ ctx.releaseUrl # NoVal => "publication" \in steps

C10_Witness ==
    /\ warn = "GitLab release failed"
    /\ ctx.releaseUrl = NoVal
    /\ pc = "runPlugins"
    /\ "publication" \in steps

\* C11: the GitHub step leaves in context.releaseUrl what GitHub returned;
\* the GitLab step keeps a URL that is already there and otherwise stores
\* what GitLab returned; no step overwrites or resets a URL once it is held;
\* the release and afterRelease plugins are handed that value and the
\* afterRelease hooks get it in place of ${releaseUrl} (the text stays as
\* written when there is no URL).
C11_FirstReleaseUrlRetained ==
    [][/\ ctx.releaseUrl # NoVal => ctx'.releaseUrl = ctx.releaseUrl
       /\ ran'.kind = "provider" /\ ran'.name = "github" =>
              ctx'.releaseUrl = ran'.returned
       /\ ran'.kind = "provider" /\ ran'.name = "gitlab" =>
              ctx'.releaseUrl = IF ctx.releaseUrl # NoVal THEN ctx.releaseUrl
                                ELSE ran'.returned
       /\ ran'.kind = "plugins" /\ ran'.phase \in {"release", "afterRelease"} =>
              ran'.releaseUrl = ctx'.releaseUrl
       /\ ran'.kind = "hooks" /\ ran'.phase = "afterRelease" =>
              ran'.line = IF ctx'.releaseUrl = NoVal THEN "${releaseUrl}"
                          ELSE ctx'.releaseUrl]_vars

C11_Witness ==
    /\ ran.kind = "provider"
    /\ ran.name = "gitlab"
    /\ ran.returned = GitLabUrl
    /\ ctx.releaseUrl = GitHubUrl
    /\ pc = "runPlugins"

\* the errors a step of either workflow (or the branch synchronization) raises
WorkflowErrorKinds == {"CommandFailed", "PushAfterRebaseFailed"}

\* the markers every completed run of the selected workflow has left
WorkflowSteps ==
    IF opts.useGitFlow THEN {"branch", "files", "commit", "push", "finish", "pushBranches"}
    ELSE {"files", "commit", "tag", "pushBranch", "pushTag"}

\* C12: a publication step (npm publish, GitHub or GitLab release creation)
\* has been attempted only if the selected workflow ran all its steps and
\* returned without error (the afterGitRelease hooks, which follow it, have
\* run); after a workflow failure, a cancelled confirmation, a dry run or an
\* info-only run no publication step has been attempted.
C12_PublicationOnlyAfterWorkflow ==
    /\ "publication" \in steps =>
          /\ WorkflowSteps \subseteq steps
          /\ \E i \in 1..Len(phases) :
                phases[i] = [kind |-> "hooks", phase |-> "afterGitRelease"]
          /\ err.kind \notin WorkflowErrorKinds
          /\ repo.manifest = ctx.newVersion
    /\ err.kind \in WorkflowErrorKinds => "publication" \notin steps
    /\ report.kind \in {"cancelled", "dryRun", "info"} => "publication" \notin steps

C12_Witness ==
    /\ "publication" \in steps
    /\ ~opts.useGitFlow
    /\ ctx.tagName \in repo.remoteTags
    /\ pc = "githubRelease"

\* the steps of the linear workflow in the order of linearRelease.js
LinearOrder == <<"files", "commit", "tag", "pushBranch", "pushTag">>

\* the set of the first n entries of a sequence
Prefix(order, n) == {order[i] : i \in 1..n}

\* C13: in the linear workflow the steps attempted so far are always the
\* first n of: write manifest and changelog, commit, create the tag, push
\* the current branch, push the tag; and a step has been attempted only if
\* the one before it succeeded: the commit only with the new version in the
\* manifest and in front of the changelog, the tag only after the commit was
\* made, the branch push only with the tag created, the tag push only with
\* the branch pushed.
C13_LinearWorkflowOrder ==
    ~opts.useGitFlow =>
        /\ \E n \in 0..Len(LinearOrder) :
              steps \ {"deleteTag", "publication"} = Prefix(LinearOrder, n)
        /\ "commit" \in steps =>
              /\ repo.manifest = ctx.newVersion
              /\ repo.changelog = <<ctx.newVersion>> \o repo0.changelog
        /\ "tag" \in steps => repo.commits = repo0.commits + 1
        /\ "pushBranch" \in steps =>
              gitTagName(ctx.tagPrefix, ctx.newVersion) \in repo.localTags
        /\ "pushTag" \in steps => ctx.currentBranch \in repo.pushed
        /\ "files" \notin steps => repo.manifest = repo0.manifest
        /\ "commit" \notin steps => repo.commits = repo0.commits
        /\ "pushBranch" \notin steps => repo.pushed = {}

C13_Witness ==
    /\ ~opts.useGitFlow
    /\ "pushTag" \in steps
    /\ pc = "runHooks"
    /\ phase = "afterGitRelease"
    /\ gitTagName(ctx.tagPrefix, ctx.newVersion) \in repo.remoteTags
    /\ repo.commits = 1

\* the steps of the branching workflow in the order of gitFlow.js
FlowOrder == <<"branch", "files", "commit", "push", "finish", "pushBranches", "pushTag">>

\* the ordering part of C14: the steps attempted so far are the first n of
\* the list, and each was attempted only after the one before it succeeded
FlowStepsInOrder ==
    opts.useGitFlow =>
        /\ \E n \in 0..Len(FlowOrder) :
              steps \ {"deleteTag", "publication"} = Prefix(FlowOrder, n)
        /\ "commit" \in steps =>
              /\ repo.manifest = ctx.newVersion
              /\ repo.changelog = <<ctx.newVersion>> \o repo0.changelog
        /\ "push" \in steps => repo.commits = repo0.commits + 1
        /\ "finish" \in steps => "release" \in repo.pushed
        /\ "pushBranches" \in steps =>
              \E flowPrefix \in Prefixes : Tag(flowPrefix, ctx.newVersion) \in repo.localTags
        /\ "pushTag" \in steps => {"develop", "main"} \subseteq repo.pushed
        /\ "finish" \notin steps => repo.pushed \cap {"develop", "main"} = {}

\* C14: the branching workflow attempts its steps in the order ensure
\* branch, files, commit, push, finish, push develop and main, push tag, each
\* only after the one before it succeeded; and the first step starts the
\* release branch exactly when no local branch has its name, and checks it
\* out otherwise.
C14_BranchingWorkflowOrder ==
    /\ FlowStepsInOrder
    /\ ran.kind = "ensureBranch" =>
          (ran.command = "flow release start" <=> ran.releaseBranch \notin ran.listed)

\* C15: in the branching workflow the tag push is attempted, after finish
\* and the pushes of develop and main, exactly when the tag prefix+version
\* exists locally; when it does not, the step only warns: no error is
\* raised, the process keeps running and the run goes on with what follows
\* the workflow.
C15_TagPushedIffLocal ==
    LET tagName == cliTagName(ctx.tagPrefix, ctx.newVersion)
    IN /\ warn = "Tag does not exist locally" =>
             /\ tagName \notin repo.localTags
             /\ "pushTag" \notin steps
             /\ {"finish", "pushBranches"} \subseteq steps
             /\ {"develop", "main"} \subseteq repo.pushed
             /\ err = NoErr
             /\ exitCode = -1
             /\ pc = "runHooks" /\ phase = "afterGitRelease"
       /\ opts.useGitFlow /\ "pushTag" \in steps =>
             /\ tagName \in repo.localTags
             /\ {"finish", "pushBranches"} \subseteq steps
             /\ {"develop", "main"} \subseteq repo.pushed
       /\ opts.useGitFlow /\ pc = "runHooks" /\ phase = "afterGitRelease" =>
             ("pushTag" \in steps <=> tagName \in repo.localTags)

C15_Witness ==
    /\ warn = "Tag does not exist locally"
    /\ Tag("v", ctx.newVersion) \in repo.localTags
    /\ {"develop", "main"} \subseteq repo.pushed
    /\ pc = "runHooks"

\* the inputs have been read and are still at hand
ConfigLoaded == pc = "loadPlugins"

\* the linear workflow is asked for by config file, flag or environment
LinearRequested ==
    \/ raw.fileGitFlow = "false"
    \/ "--no-git-flow" \in raw.argv
    \/ "RELIZ_NO_GIT_FLOW" \in raw.env

\* C16: the branching workflow is selected exactly when the linear one is
\* not asked for by gitFlow: false, --no-git-flow or RELIZ_NO_GIT_FLOW; no
\* run executes steps of both workflows, the steps executed are those of the
\* selected one, and the git-flow precondition and the branch
\* synchronization only fail a run that selected the branching workflow.
C16_ExactlyOneWorkflow ==
    /\ ConfigLoaded => (opts.useGitFlow <=> ~LinearRequested)
    /\ steps \cap {"branch", "push", "finish", "pushBranches"} # {} =>
          /\ opts.useGitFlow
          /\ steps \cap {"tag", "pushBranch"} = {}
    /\ steps \cap {"tag", "pushBranch"} # {} => ~opts.useGitFlow
    /\ err.kind = "NoGitFlow" => opts.useGitFlow
    /\ pc = "syncBranches" \/ err = GitError("fetch") => opts.useGitFlow

\* skipping the confirmation is asked for: CI mode, --yes, RELIZ_YES or
\* --only-version
SkipRequested ==
    \/ opts.isCi
    \/ "--yes" \in raw.argv
    \/ "RELIZ_YES" \in raw.env
    \/ "--only-version" \in raw.argv

\* the confirmation step asks exactly when neither CI mode nor yes is on
ConfirmAsksUnlessSkipped ==
    [][pc = "confirm" =>
          (asked' = {"confirm"} <=> ~(opts.isCi \/ opts.effectiveYes))]_vars

\* C17: the options run() hands to the confirmation step say "skip" exactly
\* when CI mode is on or --yes, RELIZ_YES or --only-version is given; when
\* the prompt is issued nothing has been mutated yet, and its answer decides
\* between going on with the release and 'Release cancelled.'.
C17_ConfirmationSkippedWhenAsked ==
    /\ ConfigLoaded => ((opts.isCi \/ opts.effectiveYes) <=> SkipRequested)
    /\ asked = {"confirm"} =>
          /\ Untouched
          /\ pc = "buildContext" \/ report.kind = "cancelled"
    /\ report.kind = "cancelled" => asked = {"confirm"}

\* C18: a step taken in CI mode issues no prompt (bump kind, pre-release id,
\* confirmation); and when the bump is resolved in CI mode with no bump kind
\* from the command line and none from the configuration (file or
\* RELIZ_BUMP), the bump kind is patch whatever the commits suggest.
C18_CiNeverPrompts ==
    [][("isCi" \in DOMAIN opts /\ opts.isCi) =>
          /\ asked' = {}
          /\ (/\ ran'.kind = "bump"
              /\ ran'.argvBump = NoVal
              /\ ran'.configBump = NoVal
              /\ ~opts.noIncrement) => ctx'.bump = "patch"]_vars

C18_Witness ==
    /\ ran.kind = "bump"
    /\ opts.isCi
    /\ ran.argvBump = NoVal
    /\ ran.configBump = NoVal
    /\ ran.suggested = "minor"
    /\ ctx.bump = "patch"
    /\ asked = {}
    /\ pc = "computeVersion"

\* the environment asks for CI mode: the toggle or a vendor variable
CiEnvironment == "RELIZ_CI" \in raw.env \/ raw.env \cap VendorVars # {}

\* C19: with RELIZ_CI or a vendor CI variable in the environment CI mode is
\* on unless the config file sets ci to false; with ci: false in the config
\* file (and no --ci flag) CI mode is off whatever the environment holds.
C19_CiDetection ==
    ConfigLoaded =>
        /\ raw.fileCi # "false" /\ CiEnvironment => opts.isCi
        /\ raw.fileCi = "false" /\ "--ci" \notin raw.argv => ~opts.isCi

\* C20: what the command line gives decides, whatever the config file gives
\* for the same key: --dry-run makes the run a dry run, --ci turns CI mode
\* on, a bump kind on the command line is the bump kind used and --preid is
\* the pre-release id used.
C20_ArgvWinsOverFile ==
    /\ ConfigLoaded =>
          /\ "--dry-run" \in raw.argv => opts.dryRun
          /\ "--ci" \in raw.argv => opts.isCi
    /\ ran.kind = "bump" =>
          /\ ran.argvBump # NoVal => ctx.bump = ran.argvBump
          /\ ran.argvPreid # NoVal => ctx.preId = ran.argvPreid

\* ------------------------------------------------- increaseVersion by itself
\* version.js increaseVersion applied to every version, bump kind and
\* pre-release id of the bounds, and then to its own result
NumericVersions ==
    {Ver(n, "", 0) : n \in [1..3 -> 0..MaxComponent] \cup [1..4 -> 0..MaxComponent]}

\* versions increaseVersion itself returns when given a pre-release id
PreReleaseVersions ==
    {Ver(n, id, k) : n \in [1..3 -> 0..MaxComponent], id \in {"beta", "rc"},
                     k \in 0..MaxCounter}

BumpKinds == {"major", "minor", "patch", "hotfix", "build"}

PreIdInputs == {NoVal, "", " ", "beta", "Beta ", "rc"}

VersionInit ==
    /\ raw = NoRawInput
    /\ pc = "increaseVersion"
    /\ phase = NoVal
    /\ ran = NoRan
    /\ phases = <<>>
    /\ opts = loadConfig(NoRawInput)
    /\ plugins = 0
    /\ \E v \in NumericVersions \cup PreReleaseVersions, type \in BumpKinds,
          preId \in PreIdInputs :
          ctx = [currentVersion |-> v, type |-> type, preId |-> preId, results |-> <<>>]
    /\ repo = [manifest |-> ctx.currentVersion]
    /\ repo0 = repo
    /\ steps = {}
    /\ asked = {}
    /\ err = NoErr
    /\ exitCode = -1
    /\ report = NoReport
    /\ warn = NoVal

\* newVersion = increaseVersion(currentVersion, bump, preId), the next call
\* starting from the version the call before it returned
applyIncreaseVersion ==
    /\ pc = "increaseVersion"
    /\ Len(ctx.results) < MaxApplications
    /\ LET from == IF ctx.results = <<>> THEN ctx.currentVersion
                   ELSE ctx.results[Len(ctx.results)]
       IN ctx' = [ctx EXCEPT !.results = Append(@, increaseVersion(from, ctx.type, ctx.preId))]
    /\ UNCHANGED <<raw, pc, phase, ran, phases, opts, plugins, repo, repo0,
                   steps, asked, err, exitCode, report, warn>>

VersionNext == applyIncreaseVersion

VersionSpec == VersionInit /\ [][VersionNext]_vars

\* ------------------------------------------------------ changelog fragment
\* changelog.js parseConventional: the lower-cased type of a line matching
\* /^(\w+)(?:\(([^)]+)\))?:\s*(.+)$/, null for any other line
parseConventional(line) ==
    IF line.sep = ": " THEN LowerCase(line.type) ELSE NoVal

\* the lines of a changelog fragment
Item(c) == [line |-> "item", commit |-> c]
Header(type) ==
    [line |-> "header", type |-> type,
     title |-> CASE type = "feat" -> "Features"
                 [] type = "fix" -> "Bug Fixes"
                 [] type = "chore" -> "Chores"
                 [] OTHER -> "Other"]
Blank == [line |-> "blank"]

\* the type a commit is grouped under
GroupOf(line) == IF parseConventional(line) = NoVal THEN "other" ELSE parseConventional(line)

\* the types of the list ordered by name
byTypeKeysSorted(list) ==
    SelectSeq(<<"chore", "feat", "fix", "other">>,
              LAMBDA k : \E i \in 1..Len(list) : GroupOf(list[i]) = k)

\* the keys of byType in insertion order
RECURSIVE byTypeKeys(_)
byTypeKeys(list) ==
    IF list = <<>> THEN <<>>
    ELSE LET rest == byTypeKeys(SubSeq(list, 1, Len(list) - 1))
             type == GroupOf(list[Len(list)])
         IN IF \E i \in 1..Len(rest) : rest[i] = type THEN rest ELSE Append(rest, type)

\* list.map(c => `- ${c}`).join('\n')
ItemLines(list) == [i \in 1..Len(list) |-> Item(list[i])]

\* parts.join('\n\n') of the sections `### ${header}\n\n${lines}`
RECURSIVE joinParts(_, _)
joinParts(keys, list) ==
    IF keys = <<>> THEN <<>>
    ELSE LET section == <<Header(keys[1]), Blank>> \o
                        ItemLines(SelectSeq(list, LAMBDA c : GroupOf(c) = keys[1]))
         IN IF Len(keys) = 1 THEN section
            ELSE section \o <<Blank>> \o joinParts(Tail(keys), list)

\* a filter that also drops the lines that are not conventional commits
filterDropsUnparsed(commits, includeTypes) ==
    SelectSeq(commits, LAMBDA line :
        \E i \in 1..Len(includeTypes) : includeTypes[i] = parseConventional(line))

\* commits.filter(...) of filterAndFormatCommits
filterCommits(commits, includeTypes) ==
    SelectSeq(commits, LAMBDA line :
        \/ parseConventional(line) = NoVal
        \/ \E i \in 1..Len(includeTypes) : includeTypes[i] = parseConventional(line))

\* changelog.js filterAndFormatCommits; options.includeTypes absent is null
filterAndFormatCommits(commits, options) ==
    LET list == IF "includeTypes" \in DOMAIN options /\ Len(options.includeTypes) > 0
                THEN filterCommits(commits, options.includeTypes)
                ELSE commits
    IN IF ~options.groupByType THEN ItemLines(list)
       ELSE joinParts(byTypeKeys(list), list)

CommitsInit ==
    /\ raw = NoRawInput
    /\ pc = "commits"
    /\ phase = NoVal
    /\ ran = NoRan
    /\ phases = <<>>
    /\ opts \in [groupByType : BOOLEAN] \cup
                 [includeTypes : {<<>>, <<"feat">>, <<"fix", "feat">>},
                  groupByType : BOOLEAN]
    /\ plugins = 0
    /\ \E commits \in CommitLists :
          ctx = [commits |-> commits, applied |-> {}, suggested |-> NoVal,
                 fragment |-> <<>>]
    /\ repo = [manifest |-> NoVer]
    /\ repo0 = repo
    /\ steps = {}
    /\ asked = {}
    /\ err = NoErr
    /\ exitCode = -1
    /\ report = NoReport
    /\ warn = NoVal

\* suggested = suggestBumpFromCommits(commits)
applySuggestBump ==
    /\ pc = "commits"
    /\ "suggestBumpFromCommits" \notin ctx.applied
    /\ ctx' = [ctx EXCEPT !.suggested = suggestBumpFromCommits(ctx.commits),
                          !.applied = @ \cup {"suggestBumpFromCommits"}]
    /\ UNCHANGED <<raw, pc, phase, ran, phases, opts, plugins, repo, repo0,
                   steps, asked, err, exitCode, report, warn>>

\* filterAndFormatCommits(commits, { includeTypes, groupByType })
applyFilterAndFormat ==
    /\ pc = "commits"
    /\ "filterAndFormatCommits" \notin ctx.applied
    /\ ctx' = [ctx EXCEPT !.fragment = filterAndFormatCommits(ctx.commits, opts),
                          !.applied = @ \cup {"filterAndFormatCommits"}]
    /\ UNCHANGED <<raw, pc, phase, ran, phases, opts, plugins, repo, repo0,
                   steps, asked, err, exitCode, report, warn>>

CommitsNext == applySuggestBump \/ applyFilterAndFormat

CommitsSpec == CommitsInit /\ [][CommitsNext]_vars

\* ------------------------------------------- changelog of successive releases
\* What run() does with the changelog in one invocation: getChangelogText
\* (cli.js 155), appendChangelogEntry in the workflow, getReleaseNotesBody
\* (cli.js 176); then the next invocation, on the file the one before left.

\* changelog.js runChangelogCommand: (out && out.trim()) || ''
runChangelogCommand(out) == IF out = " notes " THEN "notes" ELSE ""

getChangelogText(ch, commits, out) ==
    IF ch.command # NoVal
    THEN [from |-> "command", text |-> runChangelogCommand(out)]
    ELSE [from |-> "filterAndFormatCommits", lines |-> filterAndFormatCommits(commits, ch)]

getReleaseNotesBody(ch, version, commits, out) ==
    IF ch.releaseNotesCommand # NoVal
    THEN IF runChangelogCommand(out) # ""
         THEN [from |-> "command", text |-> runChangelogCommand(out)]
         ELSE [from |-> "commits", version |-> version, lines |-> ItemLines(commits)]
    ELSE [from |-> "filterAndFormatCommits", version |-> version,
          lines |-> filterAndFormatCommits(commits, ch)]

\* interpolate(DEFAULT_ENTRY_TEMPLATE, { version, date, commits }): a text
\* replaces ${commits}, an array (an object) leaves it as written
changelogEntry(version, changelogText) ==
    [version |-> version,
     commits |-> IF changelogText.from = "array" THEN [from |-> "${commits}"]
                 ELSE changelogText]

ChangelogInit ==
    /\ raw = NoRawInput
    /\ pc = "getChangelogText"
    /\ phase = NoVal
    /\ ran = NoRan
    /\ phases = <<>>
    /\ \E ch \in [command : {NoVal, "cmd"}, releaseNotesCommand : {NoVal, "cmd"},
                   groupByType : BOOLEAN] :
       \E useGitFlow \in BOOLEAN :
          opts = [changelog |-> ch, useGitFlow |-> useGitFlow]
    /\ plugins = 0
    /\ ctx = [commits |-> <<>>, changelogText |-> [from |-> "none"],
              releaseBody |-> [from |-> "none"], entries |-> <<>>]
    /\ \E content \in {<<>>, <<PriorEntry>>} :
          repo = [manifest |-> Ver(<<1, 2, 3>>, "", 0), changelog |-> content]
    /\ repo0 = repo
    /\ steps = {}
    /\ asked = {}
    /\ err = NoErr
    /\ exitCode = -1
    /\ report = NoReport
    /\ warn = NoVal

\* cli.js 155 of the next invocation: context.changelogText
changelogText ==
    /\ pc = "getChangelogText"
    /\ Len(ctx.entries) < MaxReleases
    /\ \E commits \in CommitSamples, out \in {"", " notes "} :
          ctx' = [ctx EXCEPT !.commits = commits,
                             !.changelogText = getChangelogText(opts.changelog, commits, out),
                             !.releaseBody = [from |-> "none"]]
    /\ pc' = "updateFiles"
    /\ UNCHANGED <<raw, phase, ran, phases, opts, plugins, repo, repo0,
                   steps, asked, err, exitCode, report, warn>>

\* gitFlow.js 38 hands the commits array to appendChangelogEntry,
\* linearRelease.js 26 hands it context.changelogText
writeChangelog ==
    /\ pc = "updateFiles"
    /\ LET version == increaseVersion(repo.manifest, "patch", NoVal)
           entry == changelogEntry(version, IF opts.useGitFlow THEN [from |-> "array"]
                                            ELSE ctx.changelogText)
       IN /\ repo' = [repo EXCEPT !.manifest = version,
                                     !.changelog = appendChangelogEntry(@, entry)]
          /\ ctx' = [ctx EXCEPT !.entries = <<entry>> \o @]
    /\ pc' = "getReleaseNotesBody"
    /\ UNCHANGED <<raw, phase, ran, phases, opts, plugins, repo0,
                   steps, asked, err, exitCode, report, warn>>

\* cli.js 176: releaseBody = getReleaseNotesBody(context)
releaseNotes ==
    /\ pc = "getReleaseNotesBody"
    /\ \E out \in {"", " notes "} :
          ctx' = [ctx EXCEPT !.releaseBody =
                      getReleaseNotesBody(opts.changelog, ctx.entries[1].version,
                                          ctx.commits, out)]
    /\ pc' = "getChangelogText"
    /\ UNCHANGED <<raw, phase, ran, phases, opts, plugins, repo, repo0,
                   steps, asked, err, exitCode, report, warn>>

ChangelogNext == changelogText \/ writeChangelog \/ releaseNotes

ChangelogSpec == ChangelogInit /\ [][ChangelogNext]_vars

\* C21: when --config names a file that does not exist the run has failed
\* with an error once the configuration is loaded; when no path is given and
\* no config file is found the run goes on without error on the defaults.
C21_MissingConfigFileFails ==
    ConfigLoaded =>
        /\ "--config" \in raw.argv /\ ~raw.fileExists => err # NoErr
        /\ "--config" \notin raw.argv /\ ~raw.fileExists =>
              /\ err = NoErr
              /\ opts = loadConfig([NoRawInput EXCEPT !.argv = raw.argv, !.env = raw.env])

\* C22: for a numeric version of three or four components and no pre-release
\* id, the first result is (major+1).0.0 for major, major.(minor+1).0 for
\* minor, major.minor.(patch+1) for patch, and for hotfix/build the three
\* components followed by 1 (three components given) or by the fourth
\* component plus one; patch applied twice adds exactly two to the patch
\* component and leaves major and minor alone.
C22_NumericBumps ==
    LET n == ctx.currentVersion.nums
        type == ctx.type
        r == ctx.results
    IN ctx.currentVersion \in NumericVersions /\ ctx.preId = NoVal /\ r # <<>> =>
          /\ r[1].preId = ""
          /\ type = "major" => r[1].nums = <<n[1] + 1, 0, 0>>
          /\ type = "minor" => r[1].nums = <<n[1], n[2] + 1, 0>>
          /\ type = "patch" => r[1].nums = <<n[1], n[2], n[3] + 1>>
          /\ type \in {"hotfix", "build"} /\ Len(n) = 3 =>
                r[1].nums = <<n[1], n[2], n[3], 1>>
          /\ type \in {"hotfix", "build"} /\ Len(n) = 4 =>
                r[1].nums = <<n[1], n[2], n[3], n[4] + 1>>
          /\ type = "patch" /\ Len(r) >= 2 =>
                r[2] = Ver(<<n[1], n[2], n[3] + 2>>, "", 0)

\* patch applied twice to the four-component version 1.2.1.2
C22_Witness ==
    /\ ctx.currentVersion = Ver(<<1, 2, 1, 2>>, "", 0)
    /\ ctx.type = "patch"
    /\ ctx.preId = NoVal
    /\ ctx.results = <<Ver(<<1, 2, 2>>, "", 0), Ver(<<1, 2, 3>>, "", 0)>>

\* a version of three or four numbers, with or without a pre-release segment
WellFormed(v) ==
    /\ Len(v.nums) \in {3, 4}
    /\ \A i \in 1..Len(v.nums) : v.nums[i] \in Nat
    /\ v.preNum \in Nat

\* major, minor, patch, build, pre-release counter
OrderKey(v) ==
    <<PartAt(v.nums, 1), PartAt(v.nums, 2), PartAt(v.nums, 3), PartAt(v.nums, 4),
      IF v.preId = "" THEN 0 ELSE v.preNum>>

\* a comes strictly before b in the component-wise ordering
Precedes(a, b) ==
    \E i \in 1..5 :
        /\ \A j \in 1..(i - 1) : OrderKey(a)[j] = OrderKey(b)[j]
        /\ OrderKey(a)[i] < OrderKey(b)[i]

\* C23: whatever the current version (numeric or carrying a pre-release
\* segment), the bump kind and the pre-release id, the version
\* increaseVersion returns is well formed and strictly greater than the
\* current one in the ordering major, minor, patch, build, counter.
C23_ResultStrictlyGreater ==
    ctx.results # <<>> =>
        /\ WellFormed(ctx.results[1])
        /\ Precedes(ctx.currentVersion, ctx.results[1])

Reordered(commits, perm) == [i \in 1..Len(commits) |-> commits[perm[i]]]

\* C25: the suggestion is major if some subject carries a breaking-change
\* marker, else minor if some subject has type feat, else patch if some
\* subject has type fix, else none; and every reordering of the same commits
\* gets the same suggestion.
C25_SuggestionByPrecedence ==
    LET commits == ctx.commits
        some(re(_)) == \E i \in 1..Len(commits) : re(commits[i])
    IN "suggestBumpFromCommits" \in ctx.applied =>
          /\ ctx.suggested = IF some(reBreaking) THEN "major"
                             ELSE IF some(reFeat) THEN "minor"
                             ELSE IF some(reFix) THEN "patch"
                             ELSE NoVal
          /\ \A perm \in Permutations(1..Len(commits)) :
                suggestBumpFromCommits(Reordered(commits, perm)) = ctx.suggested

\* a fix, then a feature, then a breaking change: major
C25_Witness ==
    /\ ctx.commits = <<Subject("Fix", ": ", "x"), Subject("feat", ": ", "x"),
                       Subject("chore", "!: ", "x")>>
    /\ "suggestBumpFromCommits" \in ctx.applied
    /\ ctx.suggested = "major"

\* the step resolves the bump kind in a non-CI run with no bump kind from the
\* command line or the configuration, conventional commits enabled, a
\* suggestion available and the default of the bump prompt accepted
AcceptsSuggestion ==
    /\ pc = "resolveBump"
    /\ ~opts.isCi /\ ~opts.noIncrement
    /\ ran'.argvBump = NoVal /\ ran'.configBump = NoVal
    /\ ran'.conventionalCommits
    /\ suggestBumpFromCommits(ran'.commits) # NoVal
    /\ ran'.answer = "default"

\* the suggestion is released, the confirmation is asked and decides
SuggestionReleased ==
    /\ AcceptsSuggestion =>
          /\ "bump" \in asked'
          /\ ctx'.bump = suggestBumpFromCommits(ran'.commits)
          /\ ran'.commits = <<Subject("fix", ": ", "a bug"),
                              Subject("feat", ": ", "new thing")>> => ctx'.bump = "minor"
    /\ pc = "computeVersion" /\ ~opts.noIncrement /\ ctx.bump # NoVal =>
          ctx'.newVersion = increaseVersion(ctx.currentVersion, ctx.bump, ctx.preId)
    /\ pc = "confirm" /\ ~opts.isCi /\ ~opts.effectiveYes =>
          /\ asked' = {"confirm"}
          /\ pc' = "buildContext" \/ report'.kind = "cancelled"

\* a tag the step creates is the configured prefix followed by the new version
TagIsPrefixAndVersion ==
    pc \in {"linearCreateTag", "flowFinish"} =>
        repo'.localTags \ repo.localTags \subseteq {Tag(ctx.tagPrefix, ctx.newVersion)}

\* C26: in a non-CI run with no bump kind requested and conventional commits
\* enabled, accepting the default of the bump prompt releases the bump kind
\* suggested from the commits (minor for 'fix: a bug', 'feat: new thing'),
\* the new version is increaseVersion of that kind, the confirmation prompt
\* is issued and accepting it goes on to the workflow, and the tag the
\* workflow creates is the prefix followed by the new version.
C26_SuggestedBumpReleased ==
    [][SuggestionReleased /\ TagIsPrefixAndVersion]_vars

\* the commits listed in a fragment, in the order of their lines
ItemsOf(fragment) ==
    LET items == SelectSeq(fragment, LAMBDA l : l.line = "item")
    IN [i \in 1..Len(items) |-> items[i].commit]

\* how many times x occurs in seq
Count(seq, x) == Cardinality({i \in 1..Len(seq) : seq[i] = x})

\* the same elements the same number of times
SameElements(a, b) ==
    /\ Len(a) = Len(b)
    /\ \A i \in 1..Len(a) : Count(a, a[i]) = Count(b, a[i])

\* the commits the claim retains: those that are not 'type(scope): message'
\* and those whose type is listed; all of them when no type is listed
Retained(commits, options) ==
    IF "includeTypes" \in DOMAIN options /\ options.includeTypes # <<>>
    THEN SelectSeq(commits, LAMBDA c :
            \/ c.sep # ": "
            \/ \E i \in 1..Len(options.includeTypes) :
                    options.includeTypes[i] = LowerCase(c.type))
    ELSE commits

SectionOfCommit(c) == IF c.sep = ": " THEN LowerCase(c.type) ELSE "other"

\* the type of the header above line i of the fragment, null when none is
HeaderAbove(fragment, i) ==
    LET above == {j \in 1..(i - 1) : fragment[j].line = "header"}
    IN IF above = {} THEN NoVal
       ELSE fragment[CHOOSE j \in above : \A k \in above : k <= j].type

\* C28: not grouped, the fragment is the list of the retained commits in
\* their original order and nothing else; grouped, every retained commit is
\* listed exactly once, below the header of its type ('other' when it is
\* unclassified), each type has one section, the sections come in the order
\* in which their types first occur, and the commits of a section keep
\* their original relative order.
C28_GroupedByTypeInFirstOccurrenceOrder ==
    LET frag == ctx.fragment
        kept == Retained(ctx.commits, opts)
        headers == SelectSeq(frag, LAMBDA l : l.line = "header")
        First(type) == CHOOSE i \in 1..Len(kept) :
                          /\ SectionOfCommit(kept[i]) = type
                          /\ \A j \in 1..(i - 1) : SectionOfCommit(kept[j]) # type
        Of(seq, type) == SelectSeq(seq, LAMBDA c : SectionOfCommit(c) = type)
    IN "filterAndFormatCommits" \in ctx.applied =>
          /\ ~opts.groupByType => frag = [i \in 1..Len(kept) |-> Item(kept[i])]
          /\ opts.groupByType =>
                /\ SameElements(ItemsOf(frag), kept)
                /\ \A i \in 1..Len(frag) :
                      frag[i].line = "item" =>
                          HeaderAbove(frag, i) = SectionOfCommit(frag[i].commit)
                /\ \A a \in 1..Len(headers) :
                      /\ \E i \in 1..Len(kept) : SectionOfCommit(kept[i]) = headers[a].type
                      /\ \A b \in (a + 1)..Len(headers) :
                            /\ headers[a].type # headers[b].type
                            /\ First(headers[a].type) < First(headers[b].type)
                /\ \A a \in 1..Len(headers) :
                      Of(ItemsOf(frag), headers[a].type) = Of(kept, headers[a].type)

\* a fix, a feature and 'Fix!: x', which parseConventional does not match:
\* sections fix, feat, other in the order of first occurrence
C28_Witness ==
    /\ "filterAndFormatCommits" \in ctx.applied
    /\ opts.groupByType
    /\ ctx.commits = <<Subject("Fix", ": ", "x"), Subject("feat", ": ", "x"),
                       Subject("Fix", "!: ", "x")>>
    /\ ctx.fragment = <<Header("fix"), Blank, Item(Subject("Fix", ": ", "x")), Blank,
                        Header("feat"), Blank, Item(Subject("feat", ": ", "x")), Blank,
                        Header("other"), Blank, Item(Subject("Fix", "!: ", "x"))>>

\* C29: in an invocation with changelog.command configured neither the
\* changelog fragment nor the release-notes body comes from
\* filterAndFormatCommits, and the fragment is the trimmed output of the
\* command.
C29_CommandReplacesBuiltIn ==
    opts.changelog.command # NoVal =>
        /\ ctx.changelogText.from # "filterAndFormatCommits"
        /\ ctx.releaseBody.from # "filterAndFormatCommits"
        /\ ctx.changelogText.from = "command" => ctx.changelogText.text \in {"", "notes"}

\* C30: after any number of releases the changelog file is the entries of
\* those releases, the newest first, followed by what the file held before
\* the first of them.
C30_EntriesNewestFirst ==
    /\ repo.changelog = ctx.entries \o repo0.changelog
    /\ \A i \in 1..Len(ctx.entries) : \A j \in (i + 1)..Len(ctx.entries) :
          Precedes(ctx.entries[j].version, ctx.entries[i].version)
    /\ pc = "getChangelogText" =>
          \A i \in 1..Len(ctx.entries) :
              ctx.entries[i].version =
                  Ver(<<1, 2, 3 + Len(ctx.entries) + 1 - i>>, "", 0)

\* two releases on a file that held an entry: 1.2.5, 1.2.4, then that entry
C30_Witness ==
    /\ Len(ctx.entries) = 2
    /\ repo0.changelog = <<PriorEntry>>
    /\ Len(repo.changelog) = 3
    /\ repo.changelog[1].version = Ver(<<1, 2, 5>>, "", 0)
    /\ repo.changelog[2].version = Ver(<<1, 2, 4>>, "", 0)
    /\ repo.changelog[3] = PriorEntry

\* the run was started with --release-version or --changelog and has not
\* ended yet
InfoOnlyRun ==
    \/ pc \in {"printNextVersion", "printChangelog"}
    \/ /\ pc \in {"loadPlugins", "runPlugins", "runHooks", "getCurrentVersion"}
       /\ "releaseVersion" \in DOMAIN opts
       /\ opts.releaseVersion \/ opts.changelog

\* the step issues no prompt, changes nothing in the repository and executes
\* no workflow or publication step; after package.json is read the run goes
\* to the output of its flag
InfoOnlyStepIsQuiet ==
    /\ asked' = {}
    /\ repo' = repo
    /\ steps' = steps
    /\ pc = "getCurrentVersion" => pc' \in {"printNextVersion", "printChangelog"}
    /\ pc \in {"printNextVersion", "printChangelog"} => pc' = "exited"

C32_NoTagWhenWorkflowStarts ==
    ran.kind = "ensureTagNotExists" /\ ran.deleteIfExists =>
        /\ pc \in {"syncBranches", "linearUpdateFiles"}
        /\ ctx.tagName \notin repo.localTags
        /\ ctx.tagName \notin repo.remoteTags

\* C33: the branches the synchronization step runs `git branch --force` on
\* do not include the branch that is checked out; when that branch is main
\* or develop, the other one is force-updated.
C33_CurrentBranchNotForced ==
    ran.kind = "syncBranches" /\ ran.forced # {} =>
        /\ ctx.currentBranch \notin ran.forced
        /\ ctx.currentBranch = "develop" => ran.forced = {"main"}
        /\ ctx.currentBranch = "main" => ran.forced = {"develop"}

\* the hook phases among the phases run so far, in order
HookPhasesRun ==
    LET hs == SelectSeq(phases, LAMBDA x : x.kind = "hooks")
    IN [i \in 1..Len(hs) |-> hs[i].phase]

\* C34: a run that completed has run the hook phases beforeInit,
\* beforeRelease, afterGitRelease, afterBump, afterRelease, each once and in
\* this order.  beforeInit runs before package.json is read and before any
\* precondition check; beforeRelease after the confirmation, with the release
\* context built and nothing executed yet; afterGitRelease and afterBump
\* after all steps of the workflow and before any publication; afterRelease
\* right after the release-phase plugins, which follow the publication.
C34_HookPhasesInFixedOrder ==
    /\ report.kind = "completed" =>
          HookPhasesRun = <<"beforeInit", "beforeRelease", "afterGitRelease",
                            "afterBump", "afterRelease">>
    /\ ran.kind = "hooks" =>
          /\ ran.phase = "beforeInit" =>
                /\ ctx.currentVersion = NoVer /\ ctx.currentBranch = NoVal
                /\ steps = {}
          /\ ran.phase = "beforeRelease" =>
                /\ ctx.tagName # NoTag
                /\ "isCi" \notin DOMAIN opts
                /\ steps = {}
          /\ ran.phase \in {"afterGitRelease", "afterBump"} =>
                /\ WorkflowSteps \subseteq steps
                /\ "publication" \notin steps
          /\ ran.phase = "afterRelease" =>
                /\ Len(phases) >= 2
                /\ phases[Len(phases) - 1] = [kind |-> "plugins", phase |-> "release"]
                /\ WorkflowSteps \subseteq steps

\* a completed release that published
C34_Witness ==
    /\ report.kind = "completed"
    /\ exitCode = 0
    /\ "publication" \in steps
    /\ Len(phases) = 9
    /\ phases[8] = [kind |-> "hooks", phase |-> "afterRelease"]

\* C35: whichever workflow wrote it, the entry at the head of the changelog
\* file is the template with the new version and, for ${commits}, the
\* changelog fragment assembled for the release.
C35_EntryCarriesFragment ==
    pc = "getReleaseNotesBody" =>
        repo.changelog[1] = [version |-> repo.manifest, commits |-> ctx.changelogText]

\* C36: context.tagName is the configured prefix followed by the new
\* version; once the linear workflow has created its tag, a tag of that name
\* exists locally, and once it has pushed it, a tag of that name is on origin.
C36_LinearTagIsContextTagName ==
    /\ ctx.tagName # NoTag => ctx.tagName = Tag(ctx.tagPrefix, ctx.newVersion)
    /\ ~opts.useGitFlow /\ pc = "linearPush" => ctx.tagName \in repo.localTags
    /\ ~opts.useGitFlow /\ "pushTag" \in steps /\ err = NoErr =>
          ctx.tagName \in repo.remoteTags

\* the statements of the two workflows
WorkflowStatements ==
    {"flowEnsureBranch", "flowUpdateFiles", "flowCommit", "flowPush", "flowRebase",
     "flowFinish", "flowPushBranches", "flowPushTag",
     "linearUpdateFiles", "linearCommit", "linearCreateTag", "linearPush"}

\* C37: no statement of run() is executed twice in a row; the rebase and
\* second push are entered only from a release-branch push that failed as
\* non-fast-forward, and they are followed by the finish step or by the end
\* of the run, never by another retry; a workflow step that fails ends the
\* run.
C37_OnlyOneNarrowRetry ==
    [][/\ <<pc', phase'>> # <<pc, phase>>
       /\ pc' = "flowRebase" =>
             /\ pc = "flowPush"
             /\ ran'.kind = "pushFailed" /\ ran'.rejection = "non-fast-forward"
       /\ pc = "flowRebase" => pc' \in {"flowFinish", "exited"}
       /\ pc \in WorkflowStatements /\ pc' # "flowRebase" /\ err' # err =>
             pc' = "exited" /\ exitCode' = 1]_vars

\* ------------------------------------------------- the publication promises
\* The promise chain run() builds in cli.js 181-198, one step per start and
\* per settlement of an asynchronous operation.
Op(name, i) == [name |-> name, i |-> i]
GitHub == Op("github", 0)
GitLab == Op("gitlab", 0)
Plugin(i) == Op("plugin", i)
AfterRelease == Op("afterRelease", 0)

\* a chain in which createGitLabRelease is called beside createGitHubRelease
\* and the two promises are joined
awaitsUnchained(op) ==
    CASE op.name = "github" -> {}
      [] op.name = "gitlab" -> {}
      [] op.name = "plugin" -> {GitHub, GitLab} \cup {Plugin(j) : j \in 1..(op.i - 1)}
      [] OTHER -> {GitHub, GitLab} \cup {Plugin(j) : j \in 1..plugins}

\* the operations an operation's start is chained on: createGitHubRelease is
\* called in the callback itself (183), createGitLabRelease in a .then of
\* releasePromise (188-189), the plugin loop in a .then of that (195) with an
\* await per plugin (plugins.js 78), the afterRelease hooks in the last .then
awaits(op) ==
    CASE op.name = "github" -> {}
      [] op.name = "gitlab" -> {GitHub}
      [] op.name = "plugin" -> {GitHub, GitLab} \cup {Plugin(j) : j \in 1..(op.i - 1)}
      [] OTHER -> {GitHub, GitLab} \cup {Plugin(j) : j \in 1..plugins}

\* the operation has not been reached yet and all it is chained on has settled
mayStart(op) ==
    /\ op \notin ran.inFlight \cup ran.settled
    /\ awaits(op) \subseteq ran.settled

Starts(op) == ran' = [ran EXCEPT !.inFlight = @ \cup {op}]
Settles(op) == ran' = [ran EXCEPT !.inFlight = @ \ {op}, !.settled = @ \cup {op}]
Logged(event, op) == phases' = Append(phases, [kind |-> event, op |-> op])

PublicationInit ==
    /\ raw = NoRawInput
    /\ pc = "publication"
    /\ phase = NoVal
    /\ ran = [kind |-> "promises", inFlight |-> {}, settled |-> {}]
    /\ phases = <<>>
    /\ \E github, gitlab \in BOOLEAN :
          opts = [github |-> [release |-> github], gitlab |-> [release |-> gitlab]]
    /\ plugins \in 0..MaxPlugins
    /\ ctx = [releaseUrl |-> NoVal]
    /\ repo = [manifest |-> Ver(<<1, 2, 4>>, "", 0)]
    /\ repo0 = repo
    /\ steps = {}
    /\ asked = {}
    /\ err = NoErr
    /\ exitCode = -1
    /\ report = NoReport
    /\ warn = NoVal

\* cli.js 182-183 and 187-189: the call of a provider's release creation, or
\* nothing to wait for when the provider is not configured
startProvider(op, configured) ==
    /\ pc = "publication"
    /\ mayStart(op)
    /\ IF configured
       THEN Starts(op) /\ Logged("start", op) /\ steps' = steps \cup {"publication"}
       ELSE Settles(op) /\ UNCHANGED <<phases, steps>>
    /\ warn' = NoVal
    /\ UNCHANGED <<raw, pc, phase, opts, plugins, ctx, repo, repo0,
                   asked, err, exitCode, report>>

startGitHubRelease == startProvider(GitHub, opts.github.release)
startGitLabRelease == startProvider(GitLab, opts.gitlab.release)

\* cli.js 184-185 and 190-193: the .then and .catch of a provider's promise
settleProvider ==
    /\ pc = "publication"
    /\ \E op \in ran.inFlight :
          /\ op.name \in {"github", "gitlab"}
          /\ Settles(op)
          /\ Logged("settle", op)
          /\ \/ \E url \in {NoVal, IF op = GitHub THEN GitHubUrl ELSE GitLabUrl} :
                   /\ ctx' = [ctx EXCEPT !.releaseUrl =
                                 IF op = GitHub THEN url ELSE keepFirstUrl(@, url)]
                   /\ warn' = NoVal
             \/ /\ warn' = IF op = GitHub THEN "GitHub release failed"
                           ELSE "GitLab release failed"
                /\ UNCHANGED ctx
    /\ UNCHANGED <<raw, pc, phase, opts, plugins, repo, repo0, steps,
                   asked, err, exitCode, report>>

\* plugins.js 73-81: one turn of the loop of runPluginLifecycleAsync; only a
\* thenable result is awaited
invokeReleasePlugin ==
    /\ pc = "publication"
    /\ \E i \in 1..plugins :
          /\ mayStart(Plugin(i))
          /\ \E result \in {"absent", "returns", "throws", "promise"} :
                /\ IF result = "promise"
                   THEN Starts(Plugin(i)) /\ Logged("start", Plugin(i))
                   ELSE Settles(Plugin(i)) /\ Logged(result, Plugin(i))
                /\ warn' = IF result = "throws" THEN "Plugin failed" ELSE NoVal
    /\ UNCHANGED <<raw, pc, phase, opts, plugins, ctx, repo, repo0, steps,
                   asked, err, exitCode, report>>

\* plugins.js 78-81: the awaited promise fulfils, or rejects into the catch
settleReleasePlugin ==
    /\ pc = "publication"
    /\ \E op \in ran.inFlight :
          /\ op.name = "plugin"
          /\ Settles(op)
          /\ Logged("settle", op)
    /\ \E rejected \in BOOLEAN : warn' = IF rejected THEN "Plugin failed" ELSE NoVal
    /\ UNCHANGED <<raw, pc, phase, opts, plugins, ctx, repo, repo0, steps,
                   asked, err, exitCode, report>>

\* cli.js 195-198: the last .then runs the afterRelease hooks and plugins
runAfterRelease ==
    /\ pc = "publication"
    /\ mayStart(AfterRelease)
    /\ Settles(AfterRelease)
    /\ Logged("hooks", AfterRelease)
    /\ pc' = "exited"
    /\ \E ok \in BOOLEAN :
          /\ exitCode' = IF ok THEN 0 ELSE 1
          /\ err' = IF ok THEN NoErr ELSE [kind |-> "HookFailed"]
    /\ warn' = NoVal
    /\ UNCHANGED <<raw, phase, opts, plugins, ctx, repo, repo0, steps, asked, report>>

PublicationNext ==
    \/ startGitHubRelease
    \/ startGitLabRelease
    \/ settleProvider
    \/ invokeReleasePlugin
    \/ settleReleasePlugin
    \/ runAfterRelease

PublicationSpec == PublicationInit /\ [][PublicationNext]_vars

\* the operations run() has reached, whether this step reaches one, and
\* whether this step puts one in flight
Reached(r) == r.inFlight \cup r.settled
ReachedNow(op) == op \in Reached(ran') /\ op \notin Reached(ran)
StartsNow(op) == op \in ran'.inFlight /\ op \notin ran.inFlight

\* C38: the asynchronous operations of the publication phase are never in
\* flight together: GitLab release creation starts only once GitHub's has
\* settled, a release-phase plugin is invoked only once both providers and
\* every plugin registered before it have settled, and the afterRelease hooks
\* run only once nothing is in flight and every plugin has settled.
C38_PublicationIsSequenced ==
    [][/\ Cardinality(ran'.inFlight) <= 1
       /\ StartsNow(GitLab) => GitHub \in ran.settled /\ ran.inFlight = {}
       /\ \A i \in 1..plugins :
             ReachedNow(Plugin(i)) =>
                /\ ran.inFlight = {}
                /\ {GitHub, GitLab} \subseteq ran.settled
                /\ \A j \in 1..(i - 1) : Plugin(j) \in ran.settled
       /\ ReachedNow(AfterRelease) =>
             /\ ran.inFlight = {}
             /\ \A i \in 1..plugins : Plugin(i) \in ran.settled]_vars

\* both providers created their releases one after the other, then two
\* plugins returned promises that were awaited in turn, then the hooks ran
C38_Witness ==
    /\ pc = "exited"
    /\ exitCode = 0
    /\ plugins = 2
    /\ [n \in 1..Len(phases) |-> <<phases[n].kind, phases[n].op>>]
          = << <<"start", GitHub>>, <<"settle", GitHub>>,
               <<"start", GitLab>>, <<"settle", GitLab>>,
               <<"start", Plugin(1)>>, <<"settle", Plugin(1)>>,
               <<"start", Plugin(2)>>, <<"settle", Plugin(2)>>,
               <<"hooks", AfterRelease>> >>

\* ------------------------------------------------------- configuration merge
\* A JSON value is the record of its type and content; an object is the
\* function from the keys of its level to their values, Undefined standing
\* for a key the object does not have.
Undefined == [t |-> "undefined", v |-> 0]
Null == [t |-> "null", v |-> 0]
Num(n) == [t |-> "number", v |-> n]
Arr(items) == [t |-> "array", v |-> items]
Obj(fields) == [t |-> "object", v |-> fields]

TopKeys == {"tag"}
NestedKeys == {"0", "prefix"}

\* The trees the merge is given, each written as the code of the value of
\* its top-level key: 0 for a missing key, 1 for null, 2 for a number, 2 + e
\* for the one-element array [e], and ObjectCode with the codes of the nested
\* keys for an object.
LeafCodes == 0..(MaxElement + 2)
ObjectCode == MaxElement + 3
NoFields == [k \in NestedKeys |-> 0]
TreeCodes ==
    {[leaf |-> c, fields |-> NoFields] : c \in LeafCodes}
       \cup {[leaf |-> ObjectCode, fields |-> f] : f \in [NestedKeys -> LeafCodes]}

Leaf(code) ==
    IF code = 0 THEN Undefined
    ELSE IF code = 1 THEN Null
    ELSE IF code = 2 THEN Num(1)
    ELSE Arr(<<code - 2>>)

Tree(code) ==
    Obj([k \in TopKeys |->
           IF code.leaf = ObjectCode
           THEN Obj([x \in NestedKeys |-> Leaf(code.fields[x])])
           ELSE Leaf(code.leaf)])

\* source[key] != null && typeof source[key] === 'object' && !Array.isArray(source[key])
isPlainObject(x) == x.t = "object"

\* the left side of out[key] || {} is taken
truthy(x) == x.t \in {"object", "array"} \/ (x.t = "number" /\ x.v # 0)

\* { ...x } over the keys of a level: the own properties of an object, the
\* indices of an array, nothing for a scalar, null or undefined
spread(x, keys) ==
    IF x.t = "object" THEN x.v
    ELSE IF x.t = "array"
         THEN [k \in keys |-> IF k = "0" /\ Len(x.v) >= 1 THEN Num(x.v[1])
                              ELSE Undefined]
    ELSE [k \in keys |-> Undefined]

\* a deepMerge that starts from the target itself: const out = target
targetAfterAliased(target, out) == out

\* const out = { ...target }: out is a new object, so the writes to out
\* leave the object passed as target as it was
targetAfter(target, out) == target

\* part_001 67-77; out is the returned tree, target what the object passed as
\* target holds when the call returns
RECURSIVE deepMerge(_, _)
deepMerge(target, source) ==
    LET keys == DOMAIN source.v
        held == spread(target, keys)
        nested(k) ==
            deepMerge(IF truthy(held[k]) THEN held[k]
                      ELSE Obj([x \in DOMAIN source.v[k].v |-> Undefined]),
                      source.v[k])
        out == Obj([k \in keys |->
                      IF isPlainObject(source.v[k]) THEN nested(k).out
                      ELSE IF source.v[k].t # "undefined" THEN source.v[k]
                      ELSE held[k]])
        shared == IF target.t = "object"
                  THEN Obj([k \in keys |->
                              IF isPlainObject(source.v[k]) /\ truthy(held[k])
                              THEN nested(k).target ELSE held[k]])
                  ELSE target
    IN [out |-> out, target |-> targetAfter(shared, out)]

MergeInit ==
    /\ \E a, b, c \in TreeCodes : raw = [a |-> Tree(a), b |-> Tree(b), c |-> Tree(c)]
    /\ pc = "deepMerge"
    /\ phase = NoVal
    /\ ran = NoRan
    /\ phases = <<>>
    /\ opts = [merged |-> Undefined]
    /\ plugins = 0
    /\ ctx = [stepwise |-> Undefined, onePass |-> Undefined, defaults |-> Undefined]
    /\ repo = [manifest |-> Ver(<<1, 2, 3>>, "", 0)]
    /\ repo0 = repo
    /\ steps = {}
    /\ asked = {}
    /\ err = NoErr
    /\ exitCode = -1
    /\ report = NoReport
    /\ warn = NoVal

\* part_001 188: config = deepMerge(defaults, fileConfig), with raw.a as the
\* defaults and raw.b as the file; then a third tree merged on top of the
\* result, and the first tree merged with the merge of the other two
applyDeepMerge ==
    /\ pc = "deepMerge"
    /\ LET config == deepMerge(raw.a, raw.b)
       IN /\ opts' = [merged |-> config.out]
          /\ ctx' = [stepwise |-> deepMerge(config.out, raw.c).out,
                     onePass |-> deepMerge(raw.a, deepMerge(raw.b, raw.c).out).out,
                     defaults |-> config.target]
    /\ pc' = "merged"
    /\ UNCHANGED <<raw, phase, ran, phases, plugins, repo, repo0, steps,
                   asked, err, exitCode, report, warn>>

MergeNext == applyDeepMerge

MergeSpec == MergeInit /\ [][MergeNext]_vars

\* two values are the same JSON value
RECURSIVE Same(_, _)
Same(x, y) ==
    /\ x.t = y.t
    /\ CASE x.t = "object" ->
               /\ DOMAIN x.v = DOMAIN y.v
               /\ \A k \in DOMAIN x.v : Same(x.v[k], y.v[k])
         [] x.t \in {"array", "number"} -> x.v = y.v
         [] OTHER -> TRUE

\* C39: deepMerge is associative: merging a with b and then with c gives the
\* same tree as merging a with the merge of b and c.
C39_MergeIsAssociative ==
    pc = "merged" => Same(ctx.stepwise, ctx.onePass)

\* C40: in deepMerge(defaults, file), for every key path, an array or scalar
\* of the file replaces the default value whole, a key missing from the file
\* keeps its default, an object of the file over an object of the defaults
\* is merged key by key in the same way, and the tree passed as defaults
\* holds after the call what it held before.
C40_FileReplacesOrRecurses ==
    pc = "merged" =>
       /\ \A k \in TopKeys :
             LET default == raw.a.v[k]
                 file == raw.b.v[k]
                 merged == opts.merged.v[k]
             IN /\ file.t \in {"null", "number", "array"} => Same(merged, file)
                /\ file.t = "undefined" => Same(merged, default)
                /\ file.t = "object" /\ default.t = "object" =>
                      /\ merged.t = "object"
                      /\ \A x \in NestedKeys :
                            Same(merged.v[x], IF file.v[x].t = "undefined"
                                              THEN default.v[x] ELSE file.v[x])
       /\ Same(ctx.defaults, raw.a)

\* the defaults hold { "0": [1], prefix: 1 } under tag and the file holds
\* { "0": [2] }: the merged tag has the file's array and the default prefix
C40_Witness ==
    /\ pc = "merged"
    /\ Same(raw.a.v["tag"], Obj([x \in NestedKeys |-> IF x = "0" THEN Arr(<<1>>) ELSE Num(1)]))
    /\ Same(raw.b.v["tag"], Obj([x \in NestedKeys |-> IF x = "0" THEN Arr(<<2>>) ELSE Undefined]))
    /\ Same(opts.merged.v["tag"],
            Obj([x \in NestedKeys |-> IF x = "0" THEN Arr(<<2>>) ELSE Num(1)]))

====
